---- MODULE Spec2Model ----
(***************************************************************************)
(* Certificate generator: the renderer (renderCertificate, the text        *)
(* fitting of the name block and of the card name) and the batch export    *)
(* orchestrator (generateBatchPDF / cancelGeneration of admin-bulk.js).    *)
(*                                                                         *)
(* Texts are sequences of one-character strings.  Widths are measured in   *)
(* thousandths of a pixel: a glyph advances em thousandths of the font     *)
(* size, so a text fits maxWidth when Measure <= 1000 * maxWidth.          *)
(***************************************************************************)
EXTENDS Integers, Sequences, FiniteSets, TLC

VARIABLES
    csvData,          \* rows of the loaded CSV file (input)
    generateTelugu,   \* checkbox generateTelugu (input)
    skipMissing,      \* checkbox skipMissing (input)
    sigOK,            \* environment: assets/signature.png loads
    qrMode,           \* environment: what QRCode produced ("img", "imgFail", "canvas")
    em,               \* environment: glyph advance of the fonts, per mille of the size
    isGenerating,     \* admin-bulk.js in-flight flag
    cancelRequested,  \* admin-bulk.js cancel flag
    logs,             \* the log pane of the bulk page
    progress,         \* the updateProgress(current, total, record) calls of the run
    run,              \* the activation of generateBatchPDF: its position and locals
    saved,            \* documents handed to pdf.save by the current run
    canvas,           \* the shared drawing surface: the sequence of draw operations
    calls,            \* renderCertificate invocations, each with its position
    nameDrawn,        \* lines drawn by the name block of the latest composition
    cardDrawn,        \* lines drawn by the card name of the latest composition
    console,          \* messages written to the browser console
    page,             \* main.js: the state of the single-certificate page
    lastOp            \* the handler that ran last

vars == <<csvData, generateTelugu, skipMissing, sigOK, qrMode, em, isGenerating,
          cancelRequested, logs, progress, run, saved, canvas, calls, nameDrawn,
          cardDrawn, console, page, lastOp>>

(***************************************************************************)
(* Bounds of the model.                                                    *)
(***************************************************************************)
MaxRecords == 2
MaxWords == 3
MaxCancelClicks == 1
MaxPending == 2

\* word lengths the names are built from; 0 is an empty word (a doubled,
\* leading or trailing space)
WordLens == {0, 3, 9, 13}
\* glyph advances of the metrics provider, per mille of the font size
Advs == {450, 700, 1100, 2000, 7000}

(***************************************************************************)
(* Text primitives.                                                        *)
(***************************************************************************)
RECURSIVE Concat(_)
Concat(ss) == IF ss = <<>> THEN <<>> ELSE Head(ss) \o Concat(Tail(ss))

\* String.prototype.toUpperCase: a letter maps to its capital, the sharp s ("s")
\* to two capitals, everything else to itself
UpperOf(c) ==
    CASE c = "a" -> <<"A">>
      [] c = "s" -> <<"S", "S">>
      [] OTHER -> <<c>>

ToUpperCase(t) == Concat([k \in 1..Len(t) |-> UpperOf(t[k])])

\* String.prototype.split(' ')
RECURSIVE SplitSpace(_)
SplitSpace(t) ==
    IF \A k \in 1..Len(t) : t[k] # " " THEN <<t>>
    ELSE LET k == CHOOSE j \in 1..Len(t) :
                      t[j] = " " /\ \A h \in 1..(j - 1) : t[h] # " "
         IN <<SubSeq(t, 1, k - 1)>> \o SplitSpace(SubSeq(t, k + 1, Len(t)))

\* Array.prototype.join(' ')
RECURSIVE JoinSpace(_)
JoinSpace(ws) ==
    IF ws = <<>> THEN <<>>
    ELSE IF Len(ws) = 1 THEN ws[1]
    ELSE ws[1] \o <<" ">> \o JoinSpace(Tail(ws))

\* String.prototype.trim
RECURSIVE Trim(_)
Trim(t) ==
    IF t = <<>> THEN t
    ELSE IF Head(t) = " " THEN Trim(Tail(t))
    ELSE IF t[Len(t)] = " " THEN Trim(SubSeq(t, 1, Len(t) - 1))
    ELSE t

\* advance of one glyph at the metrics e; "W" stands for a very wide glyph
Adv(c, e) == IF c = "W" THEN 10 * e ELSE e

RECURSIVE AdvSum(_, _)
AdvSum(t, e) == IF t = <<>> THEN 0 ELSE Adv(Head(t), e) + AdvSum(Tail(t), e)

\* ctx.measureText(text).width at font size `size`, in thousandths of a pixel
Measure(t, size, e) == AdvSum(t, e) * size

Letters(n, c) == [k \in 1..n |-> c]

MkWord(n, sharp) ==
    IF n > 0 /\ sharp THEN <<"s">> \o Letters(n - 1, "a") ELSE Letters(n, "a")

MkName(ws, sharp) ==
    JoinSpace([k \in 1..Len(ws) |-> MkWord(ws[k], sharp /\ k = 1)])

\* the names the renderer is exercised with
Names ==
    { MkName(ws, sharp) :
        ws \in UNION { [1..n -> WordLens] : n \in 1..MaxWords }, sharp \in BOOLEAN }

(***************************************************************************)
(* Text fitting: the shrink loops and the greedy word wrap.                *)
(***************************************************************************)
\* mutant: the loop no longer stops at the first size that fits
RECURSIVE ShrinkLoop_ToFloor(_, _, _, _, _, _)
ShrinkLoop_ToFloor(t, size, floor, step, maxW, e) ==
    IF size > floor THEN ShrinkLoop_ToFloor(t, size - step, floor, step, maxW, e)
    ELSE size

\* while (!fits(text, size) && size > floor) size -= step
RECURSIVE ShrinkLoop(_, _, _, _, _, _)
ShrinkLoop(t, size, floor, step, maxW, e) ==
    IF Measure(t, size, e) > 1000 * maxW /\ size > floor
    THEN ShrinkLoop(t, size - step, floor, step, maxW, e)
    ELSE size

\* mutant: the wrap tests the word alone instead of the line extended by it
RECURSIVE WrapFrom_TestsWord(_, _, _, _, _, _, _)
WrapFrom_TestsWord(words, i, currentLine, lines, size, maxW, e) ==
    IF i > Len(words) THEN Append(lines, currentLine)
    ELSE LET testLine == currentLine \o <<" ">> \o words[i]
         IN IF Measure(words[i], size, e) <= 1000 * maxW
            THEN WrapFrom_TestsWord(words, i + 1, testLine, lines, size, maxW, e)
            ELSE WrapFrom_TestsWord(words, i + 1, words[i], Append(lines, currentLine),
                                    size, maxW, e)

\* mutant: the lines.push(currentLine) after the loop is missing, the last
\* line is lost
RECURSIVE WrapFrom_DropsLastLine(_, _, _, _, _, _, _)
WrapFrom_DropsLastLine(words, i, currentLine, lines, size, maxW, e) ==
    IF i > Len(words) THEN lines
    ELSE LET testLine == currentLine \o <<" ">> \o words[i]
         IN IF Measure(testLine, size, e) <= 1000 * maxW
            THEN WrapFrom_DropsLastLine(words, i + 1, testLine, lines, size, maxW, e)
            ELSE WrapFrom_DropsLastLine(words, i + 1, words[i],
                                        Append(lines, currentLine), size, maxW, e)

\* mutant: every word starts a line of its own
RECURSIVE WrapFrom_OneWordPerLine(_, _, _, _, _, _, _)
WrapFrom_OneWordPerLine(words, i, currentLine, lines, size, maxW, e) ==
    IF i > Len(words) THEN Append(lines, currentLine)
    ELSE WrapFrom_OneWordPerLine(words, i + 1, words[i], Append(lines, currentLine),
                                 size, maxW, e)

\* for (i = 1; i < words.length; i++) { testLine = currentLine + ' ' + words[i]; ... }
\* followed by lines.push(currentLine); i counts from 2 here (sequences start at 1)
RECURSIVE WrapFrom(_, _, _, _, _, _, _)
WrapFrom(words, i, currentLine, lines, size, maxW, e) ==
    IF i > Len(words) THEN Append(lines, currentLine)
    ELSE LET testLine == currentLine \o <<" ">> \o words[i]
         IN IF Measure(testLine, size, e) <= 1000 * maxW
            THEN WrapFrom(words, i + 1, testLine, lines, size, maxW, e)
            ELSE WrapFrom(words, i + 1, words[i], Append(lines, currentLine),
                          size, maxW, e)

GreedyWrap(t, size, maxW, e) ==
    LET words == SplitSpace(t)
    IN WrapFrom(words, 2, words[1], <<>>, size, maxW, e)

(***************************************************************************)
(* The recipient name block of the certificate.                            *)
(***************************************************************************)
nameY == 1100
maxNameWidth == 2400
nameThreshold == 19
longNameChars == 25
nameStartSize == 200
nameMinSize == 120
nameStep == 5
nameWrapSize == 150
nameWrapSizeLong == 120
nameLineMinSize == 80
nameLineHeight == 160
nameLineHeightLong == 130

nameFits(t, size, e) == Measure(t, size, e) <= 1000 * maxNameWidth

\* the sizes the single-line loop of the name block visits, largest first
NameSizesTried == { nameStartSize - nameStep * k : k \in 0..((nameStartSize - nameMinSize) \div nameStep) }

NameSingleSize(nameText, e) ==
    ShrinkLoop(nameText, nameStartSize, nameMinSize, nameStep, maxNameWidth, e)

\* mutant: one wrap size for every name, however long
NameMultiLineFontSize_OneTier(nameText) == nameWrapSize

\* const multiLineFontSize = nameText.length > 25 ? 120 : 150
NameMultiLineFontSize(nameText) ==
    IF Len(nameText) > longNameChars THEN nameWrapSizeLong ELSE nameWrapSize

NameLineSize(line, wrapSize, e) ==
    ShrinkLoop(line, wrapSize, nameLineMinSize, nameStep, maxNameWidth, e)

\* mutant: the lines share one size, that of the line that shrank most
NameMultiLine_SharedSize(nameText, e) ==
    LET size == NameMultiLineFontSize(nameText)
        lines == GreedyWrap(nameText, size, maxNameWidth, e)
        lineHeight == IF Len(nameText) > longNameChars
                      THEN nameLineHeightLong ELSE nameLineHeight
        totalHeight == (Len(lines) - 1) * lineHeight
        firstY == nameY - (totalHeight \div 2)
        sizes == {NameLineSize(lines[k], size, e) : k \in 1..Len(lines)}
        shared == CHOOSE z \in sizes : \A y \in sizes : z <= y
    IN [k \in 1..Len(lines) |->
           [text |-> lines[k],
            size |-> shared,
            y |-> firstY + (k - 1) * lineHeight]]

\* the multi-line branch: wrap, centre the group on nameY, shrink each line
NameMultiLine(nameText, e) ==
    LET size == NameMultiLineFontSize(nameText)
        lines == GreedyWrap(nameText, size, maxNameWidth, e)
        lineHeight == IF Len(nameText) > longNameChars
                      THEN nameLineHeightLong ELSE nameLineHeight
        totalHeight == (Len(lines) - 1) * lineHeight
        firstY == nameY - (totalHeight \div 2)
    IN [k \in 1..Len(lines) |->
           [text |-> lines[k],
            size |-> NameLineSize(lines[k], size, e),
            y |-> firstY + (k - 1) * lineHeight]]

\* The single-line attempt that ends without a fit falls into
\* "forceMultiLineName = true", an assignment to a const binding: the
\* statement throws a TypeError and nothing of the name is drawn.
NameBlock(name, e) ==
    LET nameText == ToUpperCase(name)
        forceMultiLineName == Len(nameText) > nameThreshold
        fontSize == NameSingleSize(nameText, e)
    IN IF forceMultiLineName
       THEN [threw |-> FALSE, lines |-> NameMultiLine(nameText, e)]
       ELSE IF nameFits(nameText, fontSize, e)
       THEN [threw |-> FALSE,
             lines |-> <<[text |-> nameText, size |-> fontSize, y |-> nameY]>>]
       ELSE [threw |-> TRUE, lines |-> <<>>]

(***************************************************************************)
(* The name on the ID card.                                                *)
(***************************************************************************)
cardY == 1300
cardW == 500
cardH == 800
photoH == 380
photoTop == 160
cardNameGap == 55
cardPadding == 60
cardThreshold == 15
cardStartSize == 55
cardMinSize == 30
cardStep == 2
cardWrapSize == 30
cardWrapSizeLong == 26
cardLineMinSize == 16
cardLineHeight == 36
cardLineHeightLong == 32
qrSize == 140
qrPadding == 30

maxCardNameWidth == cardW - cardPadding
cardNameY == cardY + photoTop + photoH + cardNameGap

fits(t, size, e) == Measure(t, size, e) <= 1000 * maxCardNameWidth

\* the sizes the single-line loop of the card visits: 55, 53, ..., 31, 29
RECURSIVE CardSizesFrom(_)
CardSizesFrom(size) ==
    IF size > cardMinSize THEN {size} \cup CardSizesFrom(size - cardStep) ELSE {size}

CardSizesTried == CardSizesFrom(cardStartSize)

CardSingleSize(fullname, e) ==
    ShrinkLoop(fullname, cardStartSize, cardMinSize, cardStep, maxCardNameWidth, e)

CardMultiLineFontSize(fullname) ==
    IF Len(fullname) > longNameChars THEN cardWrapSizeLong ELSE cardWrapSize

CardLineSize(line, wrapSize, e) ==
    ShrinkLoop(line, wrapSize, cardLineMinSize, cardStep, maxCardNameWidth, e)

\* mutant: the lines start at cardNameY however many they are
CardMultiLine_NoShift(fullname, e) ==
    LET size == CardMultiLineFontSize(fullname)
        lines == GreedyWrap(fullname, size, maxCardNameWidth, e)
        lineHeight == IF Len(fullname) > longNameChars
                      THEN cardLineHeightLong ELSE cardLineHeight
    IN [k \in 1..Len(lines) |->
           [text |-> lines[k],
            size |-> CardLineSize(lines[k], size, e),
            y |-> cardNameY + (k - 1) * lineHeight]]

\* Strategy 2 of the card name: wrap, keep the group above the code square,
\* shrink each line
CardMultiLine(fullname, e) ==
    LET size == CardMultiLineFontSize(fullname)
        lines == GreedyWrap(fullname, size, maxCardNameWidth, e)
        lineHeight == IF Len(fullname) > longNameChars
                      THEN cardLineHeightLong ELSE cardLineHeight
        maxNameBottomY == cardY + cardH - qrSize - qrPadding
        projectedBottomY == cardNameY + (Len(lines) - 1) * lineHeight
        startY == IF projectedBottomY > maxNameBottomY
                  THEN maxNameBottomY - (Len(lines) - 1) * lineHeight
                  ELSE cardNameY
    IN [k \in 1..Len(lines) |->
           [text |-> lines[k],
            size |-> CardLineSize(lines[k], size, e),
            y |-> startY + (k - 1) * lineHeight]]

CardName(fullname, e) ==
    LET forceMultiLine == Len(fullname) > cardThreshold
        bestSingleLineSize == IF forceMultiLine THEN cardStartSize
                              ELSE CardSingleSize(fullname, e)
    IN IF ~forceMultiLine /\ fits(fullname, bestSingleLineSize, e)
       THEN <<[text |-> fullname, size |-> bestSingleLineSize, y |-> cardNameY]>>
       ELSE CardMultiLine(fullname, e)

(***************************************************************************)
(* The program state as one record, so that the code between two           *)
(* suspension points is a function from state to state.                    *)
(***************************************************************************)
M == [isGenerating |-> isGenerating, cancelRequested |-> cancelRequested,
      logs |-> logs, progress |-> progress, run |-> run, saved |-> saved,
      canvas |-> canvas, calls |-> calls, nameDrawn |-> nameDrawn,
      cardDrawn |-> cardDrawn, console |-> console, page |-> page]

Set(m) ==
    /\ isGenerating' = m.isGenerating
    /\ cancelRequested' = m.cancelRequested
    /\ logs' = m.logs
    /\ progress' = m.progress
    /\ run' = m.run
    /\ saved' = m.saved
    /\ canvas' = m.canvas
    /\ calls' = m.calls
    /\ nameDrawn' = m.nameDrawn
    /\ cardDrawn' = m.cardDrawn
    /\ console' = m.console
    /\ page' = m.page

inputs == <<csvData, generateTelugu, skipMissing, sigOK, qrMode, em>>

\* log(message, type): one entry in the log pane
Log(m, type, tag) == [m EXCEPT !.logs = Append(@, <<type, tag>>)]

\* log(`${student.student_id}: ...`, type): an entry that names its record
LogFor(m, type, tag, id) == [m EXCEPT !.logs = Append(@, <<type, tag, id>>)]

\* log(`... ${successCount} ...`, type): an entry that reports a counter
LogCount(m, type, tag, n) == [m EXCEPT !.logs = Append(@, <<type, tag, "count", n>>)]

RemoveAt(s, k) == SubSeq(s, 1, k - 1) \o SubSeq(s, k + 1, Len(s))

(***************************************************************************)
(* generateBatchPDF: the exits of the run.                                 *)
(***************************************************************************)
StartIndex == 0
BatchSize == 50

Min(a, b) == IF a < b THEN a ELSE b

\* finally { isGenerating = false; ...; updateProgress(100, 100, 'Done') }
Finally(m, exit) ==
    [m EXCEPT !.isGenerating = FALSE,
              !.progress = Append(@, <<100, 100, 0>>),
              !.run = [@ EXCEPT !.pc = "idle", !.exit = exit]]

\* mutant: the cancel flag is not consulted before saving
ShouldSave_IgnoringCancel(m) == m.run.successCount > 0

\* if (!cancelRequested && successCount > 0): the document is saved only here
ShouldSave(m) == ~m.cancelRequested /\ m.run.successCount > 0

\* mutant: the run ends without handing the document to pdf.save
Finish_NoSave(m) ==
    Finally(IF m.run.successCount = 0 THEN Log(m, "error", "noCertificates") ELSE m,
            IF m.cancelRequested THEN "cancelled" ELSE "completed")

\* the statements after the loop: save and summary, or the "nothing
\* generated" error, then the finally block
Finish(m) ==
    LET r == m.run
        exit == IF m.cancelRequested THEN "cancelled" ELSE "completed"
        endIndex == Min(StartIndex + BatchSize, Len(csvData))
        done ==
            IF ShouldSave(m)
            THEN LET a == Log(m, "info", "generatingPdf")
                     b == [a EXCEPT !.saved =
                              Append(@, [filename |-> <<StartIndex, endIndex - 1>>,
                                         pages |-> r.pdf])]
                     c == LogCount(Log(b, "success", "rule"), "success", "complete",
                                   r.successCount)
                     d == IF r.skipCount > 0
                          THEN LogCount(c, "warning", "skipped", r.skipCount) ELSE c
                     f == Log(Log(d, "success", "pdfSaved"), "success", "generatedList")
                 IN IF Len(r.skippedRollNumbers) > 0
                    THEN Log(f, "warning", "skippedList") ELSE f
            ELSE IF r.successCount = 0
            THEN Log(m, "error", "noCertificates")
            ELSE m
    IN Finally(done, exit)

\* mutant: the flags are reset at the end of the try block instead of in a
\* finally block, so an exception leaves the in-flight flag set
Fail_NoFinally(m, error) ==
    [Log(m, "error", error) EXCEPT !.console = @ \cup {error},
                                   !.run.pc = "idle", !.run.exit = "failed"]

\* catch (error) { log(error.message, 'error'); console.error(error) } finally
Fail(m, error) ==
    Finally([Log(m, "error", error) EXCEPT !.console = @ \cup {error}], "failed")

(***************************************************************************)
(* parseStudent and the head of the loop.                                  *)
(***************************************************************************)
NoStudent ==
    [student_id |-> 0, rollno |-> 0, student_name |-> <<>>,
     telugu_name |-> <<>>, photo_filename |-> "missing"]

\* parseStudent(row): null without an id; column values are trimmed
ParseStudent(row) ==
    IF row.id = 0 THEN [isNull |-> TRUE, student |-> NoStudent]
    ELSE [isNull |-> FALSE,
          student |-> [student_id |-> row.id, rollno |-> row.id,
                       student_name |-> Trim(row.name),
                       telugu_name |-> Trim(row.telugu),
                       photo_filename |-> row.photo]]

\* if (cancelRequested) at the top of the loop body
CancelSeenAtRecord(m) == m.cancelRequested

\* mutant: a row without an id or a name ends the run in the catch block
RECURSIVE Loop_InvalidAborts(_, _)
Loop_InvalidAborts(m, i) ==
    LET r == m.run
    IN IF i >= Len(r.batchData) THEN Finish([m EXCEPT !.run.i = i])
       ELSE IF CancelSeenAtRecord(m)
       THEN Finish(Log([m EXCEPT !.run.i = i], "warning", "cancelled"))
       ELSE LET p == ParseStudent(r.batchData[i + 1])
            IN IF p.isNull \/ p.student.student_name = <<>>
               THEN Fail([m EXCEPT !.run.i = i], "invalidRow")
               ELSE [m EXCEPT !.run.i = i, !.run.student = p.student,
                              !.run.photoBase64 = "none", !.run.pc = "photo"]

\* The for loop from its condition with index i (0-based), up to the first
\* suspension (the photo fetch) or the exit of the loop.  Invalid rows are
\* skipped without suspending.
RECURSIVE Loop(_, _)
Loop(m, i) ==
    LET r == m.run
    IN IF i >= Len(r.batchData) THEN Finish([m EXCEPT !.run.i = i])
       ELSE IF CancelSeenAtRecord(m)
       THEN Finish(Log([m EXCEPT !.run.i = i], "warning", "cancelled"))
       ELSE LET p == ParseStudent(r.batchData[i + 1])
            IN IF p.isNull \/ p.student.student_name = <<>>
               THEN Loop([Log(m, "warning", "invalidRow") EXCEPT
                            !.run.skippedRollNumbers = Append(@, <<"row", StartIndex + i>>),
                            !.run.skipCount = @ + 1,
                            !.run.currentStep = @ + 1],
                         i + 1)
               ELSE [m EXCEPT !.run.i = i, !.run.student = p.student,
                              !.run.photoBase64 = "none", !.run.pc = "photo"]

(***************************************************************************)
(* renderCertificate.  An invocation runs to its first suspension when it  *)
(* is called and is then resumed when the signature image, the photo and   *)
(* the code image settle.                                                  *)
(***************************************************************************)
Draw(m, call, stages) ==
    [m EXCEPT !.canvas =
        @ \o [k \in 1..Len(stages) |-> <<stages[k], call.user.student_id, call.lang>>]]

\* the drawing stages up to the name block, and from it to the signature load
StagesBeforeName == <<"background", "frame", "id", "title">>
StagesAfterName == <<"name", "body", "date">>
\* after the signature image settled, up to the photo load
StagesAfterSignature == <<"signer", "card", "photoSlot">>
\* after the photo settled, up to the code image
StagesAfterPhoto == <<"cardName", "qrSlot">>

\* await loadImage('assets/signature.png') inside try/catch
SignatureCaught == TRUE
\* await loadImage(photoBase64) inside try/catch
PhotoCaught == TRUE
\* await loadImage(qrImg.src): no try/catch around it
QrCaught == FALSE

\* the statements of generateBatchPDF after "await renderCertificate(.., 'en')"
\* and after "await renderCertificate(.., 'te')": the sleep(50) starts, or the
\* rejection lands in the catch block
AfterRender(m, call, ok) ==
    IF ~ok THEN Fail(m, "renderError")
    ELSE [m EXCEPT !.run.pc = IF call.lang = "en" THEN "sleepEn" ELSE "sleepTe"]

\* main.js: studentsData is not loaded, nobody is logged in, no photo is
\* cropped, the language is English and the login screen is shown
InitialPage ==
    [currentUser |-> 0, uploadedPhotoBase64 |-> "none", cropper |-> FALSE,
     currentLang |-> "en", screen |-> "login", loginError |-> FALSE]

\* the invocation at position k settles: its caller's await resumes in the
\* same turn of the event loop; the generate handler of the single-certificate
\* page then shows the certificate screen, its language toggle does nothing more
Settle(m, k, ok) ==
    LET call == m.calls[k]
        settled == [m EXCEPT !.calls[k].pc = IF ok THEN "returned" ELSE "threw"]
    IN IF call.caller = "batch"
       THEN AfterRender([m EXCEPT !.calls = RemoveAt(@, k)], call, ok)
       ELSE IF call.caller = "generate"
       THEN IF ok THEN [m EXCEPT !.calls = RemoveAt(@, k), !.page.screen = "certificate"]
            ELSE [m EXCEPT !.calls = RemoveAt(@, k), !.console = @ \cup {"unhandled"}]
       ELSE IF call.caller = "toggle"
       THEN IF ok THEN [m EXCEPT !.calls = RemoveAt(@, k)]
            ELSE [m EXCEPT !.calls = RemoveAt(@, k), !.console = @ \cup {"unhandled"}]
       ELSE settled

\* whose picture a canvas holds: the record and the language of what was
\* drawn on it last, nothing for a blank canvas
Held(cv) == IF cv = <<>> THEN <<>> ELSE <<cv[Len(cv)][2], cv[Len(cv)][3]>>

\* mutant: the canvas is not reset, the composition is drawn over what the
\* surface held
RenderBegin_NoReset(m, user, photo, lang, caller) ==
    LET call == [user |-> user, photo |-> photo, lang |-> lang,
                 pc |-> "sig", caller |-> caller, before |-> Held(m.canvas)]
        k == Len(m.calls) + 1
        a == [m EXCEPT !.nameDrawn = <<>>, !.cardDrawn = <<>>,
                       !.calls = Append(@, call)]
        b == Draw(a, call, StagesBeforeName)
        nb == NameBlock(user.student_name, em)
    IN IF nb.threw THEN Settle(b, k, FALSE)
       ELSE Draw([b EXCEPT !.nameDrawn = nb.lines], call, StagesAfterName)

\* renderCertificate(user, photoBase64, lang) up to "await loadImage(signature)";
\* "before" is whose picture the canvas held when the invocation began,
\* which canvas.width = WIDTH clears
RenderBegin(m, user, photo, lang, caller) ==
    LET call == [user |-> user, photo |-> photo, lang |-> lang,
                 pc |-> "sig", caller |-> caller, before |-> Held(m.canvas)]
        k == Len(m.calls) + 1
        a == [m EXCEPT !.canvas = <<>>, !.nameDrawn = <<>>, !.cardDrawn = <<>>,
                       !.calls = Append(@, call)]
        b == Draw(a, call, StagesBeforeName)
        nb == NameBlock(user.student_name, em)
    IN IF nb.threw THEN Settle(b, k, FALSE)
       ELSE Draw([b EXCEPT !.nameDrawn = nb.lines], call, StagesAfterName)

\* mutant: the signature load is not awaited; the footer and the card are
\* drawn first and the signature image lands on the canvas after them
RenderSignature_NotAwaited(m, k) ==
    LET call == m.calls[k]
        a == Draw(m, call, StagesAfterSignature)
        b == IF sigOK THEN Draw(a, call, <<"signature">>)
             ELSE [a EXCEPT !.console = @ \cup {"signatureFailed"}]
    IN [b EXCEPT !.calls[k].pc = "photo"]

\* the signature image settled: draw it or warn, then the rest of the footer
\* and the card up to "await loadImage(photoBase64)"
RenderSignature(m, k) ==
    LET call == m.calls[k]
        a == IF sigOK THEN Draw(m, call, <<"signature">>)
             ELSE [m EXCEPT !.console = @ \cup {"signatureFailed"}]
    IN IF ~sigOK /\ ~SignatureCaught THEN Settle(m, k, FALSE)
       ELSE [Draw(a, call, StagesAfterSignature) EXCEPT !.calls[k].pc = "photo"]

\* the photo settled: draw it or log the error, then the card name and the
\* code square; the code is drawn from QRCode's canvas, or its image is loaded
RenderPhoto(m, k) ==
    LET call == m.calls[k]
        ok == call.photo = "ok"
        a == IF ok THEN Draw(m, call, <<"photo">>)
             ELSE [m EXCEPT !.console = @ \cup {"photoFailed"}]
        b == Draw([a EXCEPT !.cardDrawn = CardName(call.user.student_name, em)],
                  call, StagesAfterPhoto)
    IN IF ~ok /\ ~PhotoCaught THEN Settle(m, k, FALSE)
       ELSE IF qrMode = "canvas" THEN Settle(Draw(b, call, <<"qr">>), k, TRUE)
       ELSE [b EXCEPT !.calls[k].pc = "qr"]

\* the code image settled
RenderQr(m, k) ==
    LET call == m.calls[k]
    IN IF qrMode = "img" THEN Settle(Draw(m, call, <<"qr">>), k, TRUE)
       ELSE IF QrCaught THEN Settle(m, k, TRUE)
       ELSE Settle(m, k, FALSE)

(***************************************************************************)
(* generateBatchPDF: the code between its suspension points.               *)
(***************************************************************************)
IdleRun ==
    [pc |-> "idle", exit |-> "none", batchData |-> <<>>, i |-> 0,
     student |-> NoStudent, photoBase64 |-> "none", firstPage |-> TRUE,
     successCount |-> 0, skipCount |-> 0, totalSteps |-> 0, currentStep |-> 0,
     generatedRollNumbers |-> <<>>, skippedRollNumbers |-> <<>>, pdf |-> <<>>]

\* mutant: the in-flight guard is missing
GenerateRejected_Never(m) == FALSE

\* if (isGenerating) return;
GenerateRejected(m) == m.isGenerating

\* mutant: the run starts without clearing the cancel flag
StartRun_KeepsCancel(m) ==
    Log([m EXCEPT !.isGenerating = TRUE,
                  !.logs = <<>>,
                  !.progress = << <<0, 100, 0>> >>,
                  !.saved = <<>>,
                  !.run = [IdleRun EXCEPT !.pc = "csv"]],
        "info", "loadingCsv")

\* the flags, the cleared log pane and the first progress message, up to
\* "await loadCSVData()"
StartRun(m) ==
    Log([m EXCEPT !.isGenerating = TRUE,
                  !.cancelRequested = FALSE,
                  !.logs = <<>>,
                  !.progress = << <<0, 100, 0>> >>,
                  !.saved = <<>>,
                  !.run = [IdleRun EXCEPT !.pc = "csv"]],
        "info", "loadingCsv")

\* const totalSteps = generateTelugu ? batchData.length * 2 : batchData.length
TotalSteps(n) == IF generateTelugu THEN n * 2 ELSE n

\* mutant: the empty batch range is not rejected, the loop runs over no record
CsvLoaded_NoRangeCheck(m, ok) ==
    IF ~ok THEN Fail(m, "csvError")
    ELSE LET endIndex == Min(StartIndex + BatchSize, Len(csvData))
             batchData == SubSeq(csvData, StartIndex + 1, endIndex)
             a == Log(Log(m, "success", "loaded"), "info", "batch")
         IN Loop([a EXCEPT !.run.batchData = batchData,
                           !.run.pdf = << <<>> >>,
                           !.run.totalSteps = TotalSteps(Len(batchData))],
                 0)

\* the CSV promise settled: the batch range, the empty-range error, the new
\* document (jsPDF starts with one empty page) and the loop from i = 0
CsvLoaded(m, ok) ==
    IF ~ok THEN Fail(m, "csvError")
    ELSE LET endIndex == Min(StartIndex + BatchSize, Len(csvData))
             batchData == SubSeq(csvData, StartIndex + 1, endIndex)
             a == Log(Log(m, "success", "loaded"), "info", "batch")
         IN IF Len(batchData) = 0 THEN Fail(a, "noStudents")
            ELSE Loop([a EXCEPT !.run.batchData = batchData,
                                !.run.pdf = << <<>> >>,
                                !.run.totalSteps = TotalSteps(Len(batchData))],
                      0)

\* mutant: the skipped record is listed but not counted
SkipMissingPhoto_NotCounted(m) ==
    [Log(m, "warning", "photoSkipped") EXCEPT
        !.run.skippedRollNumbers = Append(@, <<"id", m.run.student.student_id>>),
        !.run.currentStep = @ + (IF generateTelugu THEN 2 ELSE 1)]

\* "Photo not found" with skipMissing: the record is skipped
SkipMissingPhoto(m) ==
    [Log(m, "warning", "photoSkipped") EXCEPT
        !.run.skippedRollNumbers = Append(@, <<"id", m.run.student.student_id>>),
        !.run.skipCount = @ + 1,
        !.run.currentStep = @ + (IF generateTelugu THEN 2 ELSE 1)]

\* mutant: a missing photo is skipped whatever the skipMissing checkbox says
PhotoResolved_AlwaysSkip(m) ==
    LET r == m.run
        photo == r.student.photo_filename
    IN IF photo = "missing"
       THEN Loop(SkipMissingPhoto(m), r.i + 1)
       ELSE RenderBegin([LogFor(m, "info", "renderingEn", r.student.student_id) EXCEPT
                            !.run.photoBase64 = photo, !.run.pc = "renderEn"],
                        r.student, photo, "en", "batch")

\* mutant: the "continue" after the skip is missing, the record is rendered
\* without a photo
PhotoResolved_NoContinue(m) ==
    LET r == m.run
        photo == r.student.photo_filename
    IN IF photo = "missing"
       THEN IF skipMissing
            THEN RenderBegin([LogFor(SkipMissingPhoto(m), "info", "renderingEn",
                                    r.student.student_id) EXCEPT
                                 !.run.pc = "renderEn"],
                             r.student, "corrupt", "en", "batch")
            ELSE Fail(m, "photoNotFound")
       ELSE RenderBegin([LogFor(m, "info", "renderingEn", r.student.student_id) EXCEPT
                            !.run.photoBase64 = photo, !.run.pc = "renderEn"],
                        r.student, photo, "en", "batch")

\* the photo fetch settled: skip or fail without a photo, otherwise the
\* English certificate starts rendering
PhotoResolved(m) ==
    LET r == m.run
        photo == r.student.photo_filename
    IN IF photo = "missing"
       THEN IF skipMissing THEN Loop(SkipMissingPhoto(m), r.i + 1)
            ELSE Fail(m, "photoNotFound")
       ELSE RenderBegin([LogFor(m, "info", "renderingEn", r.student.student_id) EXCEPT
                            !.run.photoBase64 = photo, !.run.pc = "renderEn"],
                        r.student, photo, "en", "batch")

\* pdf.addPage()
AddPage(pdf) == Append(pdf, <<>>)
\* pdf.addImage(imgData, ...): onto the current (last) page
AddImage(pdf, img) == [pdf EXCEPT ![Len(pdf)] = Append(@, img)]

\* successCount++; generatedRollNumbers.push(...); log; up to "await sleep(10)"
RecordDone(m) ==
    [Log(m, "success", "recordDone") EXCEPT
        !.run.successCount = @ + 1,
        !.run.generatedRollNumbers = Append(@, m.run.student.student_id),
        !.run.pc = "sleepEnd"]

\* if (generateTelugu && student.telugu_name)
WantsTelugu(m) == generateTelugu /\ m.run.student.telugu_name # <<>>

\* if (cancelRequested) break;  before the Telugu certificate
CancelSeenBeforeTelugu(m) == m.cancelRequested

\* the English page: added after the first sleep(50)
CaptureEnglish(m) ==
    LET r == m.run
        pdf1 == IF r.firstPage THEN r.pdf ELSE AddPage(r.pdf)
    IN [m EXCEPT !.run.pdf = AddImage(pdf1, m.canvas),
                 !.run.firstPage = FALSE,
                 !.run.currentStep = @ + 1,
                 !.progress = Append(@, <<r.currentStep + 1, r.totalSteps,
                                            r.student.student_id>>)]

\* mutant: the Telugu certificate is rendered for every record when the
\* checkbox is set, whether or not the record has a Telugu name
SleptEnglish_AlwaysTelugu(m) ==
    LET a == CaptureEnglish(m)
    IN IF generateTelugu
       THEN IF CancelSeenBeforeTelugu(a) THEN Finish(a)
            ELSE RenderBegin([LogFor(a, "info", "renderingTe", a.run.student.student_id)
                                EXCEPT !.run.pc = "renderTe"],
                             a.run.student, a.run.photoBase64, "te", "batch")
       ELSE RecordDone(a)

\* mutant: the Telugu certificate starts rendering before the English page
\* is taken from the canvas
SleptEnglish_RenderBeforeCapture(m) ==
    IF WantsTelugu(m) /\ ~CancelSeenBeforeTelugu(m)
    THEN LET b == RenderBegin([LogFor(m, "info", "renderingTe", m.run.student.student_id)
                                 EXCEPT !.run.pc = "renderTe"],
                              m.run.student, m.run.photoBase64, "te", "batch")
         IN IF b.run.pc = "idle" THEN b
            ELSE [b EXCEPT !.run.pdf = CaptureEnglish(b).run.pdf,
                           !.run.firstPage = FALSE,
                           !.run.currentStep = @ + 1]
    ELSE LET a == CaptureEnglish(m)
         IN IF WantsTelugu(a) THEN Finish(a)
            ELSE IF generateTelugu
            THEN RecordDone([a EXCEPT !.run.currentStep = @ + 1])
            ELSE RecordDone(a)

\* after "await sleep(50)" of the English certificate
SleptEnglish(m) ==
    LET a == CaptureEnglish(m)
    IN IF WantsTelugu(a)
       THEN IF CancelSeenBeforeTelugu(a) THEN Finish(a)
            ELSE RenderBegin([LogFor(a, "info", "renderingTe", a.run.student.student_id)
                                EXCEPT !.run.pc = "renderTe"],
                             a.run.student, a.run.photoBase64, "te", "batch")
       ELSE IF generateTelugu
       THEN RecordDone([a EXCEPT !.run.currentStep = @ + 1])
       ELSE RecordDone(a)

\* mutant: the Telugu page is inserted in front of the English page of its record
CaptureTelugu_First(m) ==
    LET r == m.run
        n == Len(r.pdf)
    IN [m EXCEPT !.run.pdf = SubSeq(r.pdf, 1, n - 1) \o << <<m.canvas>> >>
                               \o SubSeq(r.pdf, n, n),
                 !.run.currentStep = @ + 1,
                 !.progress = Append(@, <<r.currentStep + 1, r.totalSteps,
                                            r.student.student_id>>)]

\* the Telugu page: added after the second sleep(50)
CaptureTelugu(m) ==
    LET r == m.run
    IN [m EXCEPT !.run.pdf = AddImage(AddPage(r.pdf), m.canvas),
                 !.run.currentStep = @ + 1,
                 !.progress = Append(@, <<r.currentStep + 1, r.totalSteps,
                                            r.student.student_id>>)]

SleptTelugu(m) == RecordDone(CaptureTelugu(m))

\* after "await sleep(10)": i++ and the loop condition
SleptEnd(m) == Loop(m, m.run.i + 1)

\* cancelGeneration()
CancelEffective(m) == m.isGenerating

Cancelled(m) ==
    Log([m EXCEPT !.cancelRequested = TRUE], "warning", "cancelRequested")

CancelClicks(ls) == Cardinality({k \in 1..Len(ls) : ls[k] = <<"warning", "cancelRequested">>})

(***************************************************************************)
(* Actions.                                                                *)
(***************************************************************************)
\* click on generateBtn of the bulk page
GenerateBatchPDF ==
    /\ IF GenerateRejected(M)
       THEN /\ lastOp' = "generateIgnored"
            /\ UNCHANGED <<isGenerating, cancelRequested, logs, progress, run, saved,
                           canvas, calls, nameDrawn, cardDrawn, console, page>>
       ELSE /\ lastOp' = "generate"
            /\ Set(StartRun(M))
    /\ UNCHANGED inputs

\* click on cancelBtn
CancelGeneration ==
    /\ IF CancelEffective(M)
       THEN /\ CancelClicks(logs) < MaxCancelClicks
            /\ lastOp' = "cancel"
            /\ Set(Cancelled(M))
       ELSE /\ lastOp' = "cancelIgnored"
            /\ UNCHANGED <<isGenerating, cancelRequested, logs, progress, run, saved,
                           canvas, calls, nameDrawn, cardDrawn, console, page>>
    /\ UNCHANGED inputs

\* loadCSVData() resolves or rejects
CsvSettles ==
    /\ run.pc = "csv"
    /\ \E ok \in BOOLEAN : Set(CsvLoaded(M, ok))
    /\ lastOp' = "resume"
    /\ UNCHANGED inputs

\* loadPhotoAsBase64() resolves or rejects
PhotoFetchSettles ==
    /\ run.pc = "photo"
    /\ Set(PhotoResolved(M))
    /\ lastOp' = "resume"
    /\ UNCHANGED inputs

\* the timers of sleep(50), sleep(50) and sleep(10) fire
SleepEnglishEnds ==
    /\ run.pc = "sleepEn"
    /\ Set(SleptEnglish(M))
    /\ lastOp' = "resume"
    /\ UNCHANGED inputs

SleepTeluguEnds ==
    /\ run.pc = "sleepTe"
    /\ Set(SleptTelugu(M))
    /\ lastOp' = "resume"
    /\ UNCHANGED inputs

SleepEndEnds ==
    /\ run.pc = "sleepEnd"
    /\ Set(SleptEnd(M))
    /\ lastOp' = "resume"
    /\ UNCHANGED inputs

\* the image loads of a suspended renderCertificate settle
SignatureSettles ==
    /\ \E k \in 1..Len(calls) : calls[k].pc = "sig" /\ Set(RenderSignature(M, k))
    /\ lastOp' = "resume"
    /\ UNCHANGED inputs

PhotoSettles ==
    /\ \E k \in 1..Len(calls) : calls[k].pc = "photo" /\ Set(RenderPhoto(M, k))
    /\ lastOp' = "resume"
    /\ UNCHANGED inputs

QrSettles ==
    /\ \E k \in 1..Len(calls) : calls[k].pc = "qr" /\ Set(RenderQr(M, k))
    /\ lastOp' = "resume"
    /\ UNCHANGED inputs

\* a page calls renderCertificate with a row of its data, once the previous
\* invocation has settled
RowUser(row) ==
    [student_id |-> row.id, rollno |-> row.id, student_name |-> row.name,
     telugu_name |-> row.telugu, photo_filename |-> row.photo]

RenderDirect ==
    /\ \A k \in 1..Len(calls) : calls[k].pc \in {"returned", "threw"}
    /\ \E lang \in {"en", "te"} :
          Set(RenderBegin([M EXCEPT !.calls = <<>>], RowUser(csvData[1]),
                          csvData[1].photo, lang, "direct"))
    /\ lastOp' = "render"
    /\ UNCHANGED inputs

(***************************************************************************)
(* main.js: the handlers of the single-certificate page.                   *)
(***************************************************************************)
\* a renderCertificate invocation that is suspended at an asset load
Suspended(call) == call.pc \in {"sig", "photo", "qr"}

\* the invocations that have not settled; a settled one is of no further use
Unsettled(cs) == SelectSeq(cs, Suspended)

\* mutant: the handlers test the user only
PageReady_UserOnly(m) == m.page.currentUser # 0

\* if (!currentUser || !uploadedPhotoBase64) return;
PageReady(m) == m.page.currentUser # 0 /\ m.page.uploadedPhotoBase64 # "none"

\* loginForm submit: the row matching name, roll number and password, if any
LoginSubmit ==
    /\ \E found \in {0} \cup (1..Len(csvData)) :
          page' = IF found # 0
                  THEN [page EXCEPT !.currentUser = found, !.loginError = FALSE,
                                    !.screen = "upload"]
                  ELSE [page EXCEPT !.loginError = TRUE]
    /\ lastOp' = "login"
    /\ UNCHANGED <<isGenerating, cancelRequested, logs, progress, run, saved,
                   canvas, calls, nameDrawn, cardDrawn, console>>
    /\ UNCHANGED inputs

\* photoInput change: the file is read and the cropper is created
PhotoInputChange ==
    /\ page' = [page EXCEPT !.cropper = TRUE]
    /\ lastOp' = "photoInput"
    /\ UNCHANGED <<isGenerating, cancelRequested, logs, progress, run, saved,
                   canvas, calls, nameDrawn, cardDrawn, console>>
    /\ UNCHANGED inputs

\* cropBtn click: the cropped photo becomes uploadedPhotoBase64
CropClick ==
    /\ page' = IF ~page.cropper THEN page
               ELSE [page EXCEPT !.uploadedPhotoBase64 = "ok"]
    /\ lastOp' = "crop"
    /\ UNCHANGED <<isGenerating, cancelRequested, logs, progress, run, saved,
                   canvas, calls, nameDrawn, cardDrawn, console>>
    /\ UNCHANGED inputs

\* the handler calls renderCertificate(currentUser, uploadedPhotoBase64, lang)
PageRender(m, lang, caller) ==
    RenderBegin([m EXCEPT !.calls = Unsettled(@), !.page.currentLang = lang],
                RowUser(csvData[m.page.currentUser]), m.page.uploadedPhotoBase64,
                lang, caller)

\* generateBtn click: English, then the certificate screen once rendered
GenerateClick ==
    /\ Len(Unsettled(calls)) < MaxPending
    /\ IF PageReady(M) THEN Set(PageRender(M, "en", "generate"))
       ELSE UNCHANGED <<isGenerating, cancelRequested, logs, progress, run, saved,
                        canvas, calls, nameDrawn, cardDrawn, console, page>>
    /\ lastOp' = "generateClick"
    /\ UNCHANGED inputs

\* langToggleBtn click: the other language is rendered
LangToggleClick ==
    /\ Len(Unsettled(calls)) < MaxPending
    /\ IF PageReady(M)
       THEN Set(PageRender(M, IF page.currentLang = "en" THEN "te" ELSE "en", "toggle"))
       ELSE UNCHANGED <<isGenerating, cancelRequested, logs, progress, run, saved,
                        canvas, calls, nameDrawn, cardDrawn, console, page>>
    /\ lastOp' = "langToggle"
    /\ UNCHANGED inputs

\* const langSuffix = currentLang === 'en' ? '' : '_TE'
LangSuffix(lang) == IF lang = "en" THEN "" ELSE "_TE"

\* downloadBtn click, on the certificate screen: the file is named after
\* currentUser and currentLang and holds canvas.toDataURL() as the canvas is
\* at the click; nothing of the page changes.  Without a user the handler
\* throws at currentUser.student_name before it exports anything.
DownloadClick ==
    /\ page.screen = "certificate"
    /\ console' = IF page.currentUser = 0 THEN console \cup {"unhandled"} ELSE console
    /\ lastOp' = "download"
    /\ UNCHANGED <<isGenerating, cancelRequested, logs, progress, run, saved,
                   canvas, calls, nameDrawn, cardDrawn, page>>
    /\ UNCHANGED inputs

\* backBtn click
BackClick ==
    /\ page' = [page EXCEPT !.screen = "upload"]
    /\ lastOp' = "back"
    /\ UNCHANGED <<isGenerating, cancelRequested, logs, progress, run, saved,
                   canvas, calls, nameDrawn, cardDrawn, console>>
    /\ UNCHANGED inputs

\* logoutBtn click
LogoutClick ==
    /\ page' = [page EXCEPT !.currentUser = 0, !.uploadedPhotoBase64 = "none",
                             !.screen = "login"]
    /\ lastOp' = "logout"
    /\ UNCHANGED <<isGenerating, cancelRequested, logs, progress, run, saved,
                   canvas, calls, nameDrawn, cardDrawn, console>>
    /\ UNCHANGED inputs

(***************************************************************************)
(* Initial states and specifications.                                      *)
(***************************************************************************)
QrModes == {"img", "imgFail", "canvas"}

OrdinaryName == MkName(<<3, 9>>, FALSE)
WideName == Letters(4, "W")
TeluguName == Letters(2, "t")

\* the kinds of CSV rows of a batch
RowKinds ==
    { [hasId |-> TRUE, name |-> OrdinaryName, telugu |-> <<>>, photo |-> "ok"],
      [hasId |-> TRUE, name |-> OrdinaryName, telugu |-> TeluguName, photo |-> "ok"],
      [hasId |-> TRUE, name |-> OrdinaryName, telugu |-> TeluguName, photo |-> "missing"],
      [hasId |-> TRUE, name |-> OrdinaryName, telugu |-> <<>>, photo |-> "corrupt"],
      [hasId |-> TRUE, name |-> <<>>, telugu |-> <<>>, photo |-> "ok"],
      [hasId |-> FALSE, name |-> OrdinaryName, telugu |-> <<>>, photo |-> "ok"],
      [hasId |-> TRUE, name |-> WideName, telugu |-> <<>>, photo |-> "ok"] }

\* student ids are unique: the row at position k carries id k
Row(k, kind) ==
    [id |-> IF kind.hasId THEN k ELSE 0, name |-> kind.name,
     telugu |-> kind.telugu, photo |-> kind.photo]

CsvFiles ==
    { [k \in DOMAIN kinds |-> Row(k, kinds[k])] :
        kinds \in UNION { [1..n -> RowKinds] : n \in 0..MaxRecords } }

BatchAdvs == {600}

InitProgram ==
    /\ isGenerating = FALSE
    /\ cancelRequested = FALSE
    /\ logs = << <<"info", "ready">>, <<"info", "selectCsv">> >>
    /\ progress = <<>>
    /\ run = IdleRun
    /\ saved = <<>>
    /\ canvas = <<>>
    /\ calls = <<>>
    /\ nameDrawn = <<>>
    /\ cardDrawn = <<>>
    /\ console = {}
    /\ page = InitialPage
    /\ lastOp = "load"

Init ==
    /\ csvData \in CsvFiles
    /\ generateTelugu \in BOOLEAN
    /\ skipMissing \in BOOLEAN
    /\ sigOK \in BOOLEAN
    /\ qrMode \in QrModes
    /\ em \in BatchAdvs
    /\ InitProgram

Next ==
    \/ GenerateBatchPDF
    \/ CancelGeneration
    \/ CsvSettles
    \/ PhotoFetchSettles
    \/ SignatureSettles
    \/ PhotoSettles
    \/ QrSettles
    \/ SleepEnglishEnds
    \/ SleepTeluguEnds
    \/ SleepEndEnds

Spec == Init /\ [][Next]_vars

\* A run waits on one promise or timer at a time (the CSV fetch, the photo
\* fetch, an image load of the renderer, a sleep): the pending one settles.
Settles ==
    \/ CsvSettles
    \/ PhotoFetchSettles
    \/ SignatureSettles
    \/ PhotoSettles
    \/ QrSettles
    \/ SleepEnglishEnds
    \/ SleepTeluguEnds
    \/ SleepEndEnds

\* a promise or timer of the page is pending: the guards of the disjuncts of
\* Settles, that is, the states in which Settles is enabled
Pending ==
    \/ run.pc \in {"csv", "photo", "sleepEn", "sleepTe", "sleepEnd"}
    \/ \E k \in 1..Len(calls) : calls[k].pc \in {"sig", "photo", "qr"}

\* Every pending promise and timer eventually settles: weak fairness of
\* Settles, with its enabling condition written out as Pending.
Fairness == []<>(~Pending) \/ []<><<Settles>>_vars

SpecLive == Init /\ [][Next]_vars /\ Fairness

\* one record rendered on its own, for every name and every metrics
InitRender ==
    /\ csvData \in { <<[id |-> 1, name |-> n, telugu |-> <<>>, photo |-> p]>> :
                       n \in Names, p \in {"ok", "corrupt"} }
    /\ generateTelugu = FALSE
    /\ skipMissing = FALSE
    /\ sigOK \in BOOLEAN
    /\ qrMode \in QrModes
    /\ em \in Advs
    /\ InitProgram

NextRender ==
    \/ RenderDirect
    \/ SignatureSettles
    \/ PhotoSettles
    \/ QrSettles

SpecRender == InitRender /\ [][NextRender]_vars

\* the single-certificate page over a students.csv without rows or of one row
InitPage ==
    /\ csvData \in { [k \in 1..n |->
                         [id |-> k, name |-> OrdinaryName, telugu |-> <<>>, photo |-> "ok"]] :
                       n \in 0..1 }
    /\ generateTelugu = FALSE
    /\ skipMissing = FALSE
    /\ sigOK \in BOOLEAN
    /\ qrMode \in QrModes
    /\ em \in BatchAdvs
    /\ InitProgram

NextPage ==
    \/ LoginSubmit
    \/ PhotoInputChange
    \/ CropClick
    \/ GenerateClick
    \/ LangToggleClick
    \/ BackClick
    \/ DownloadClick
    \/ LogoutClick
    \/ SignatureSettles
    \/ PhotoSettles
    \/ QrSettles

SpecPage == InitPage /\ [][NextPage]_vars

(***************************************************************************)
(* Properties of the batch run.                                            *)
(***************************************************************************)
\* the record and language of an image: those of the composition that
\* cleared the canvas and painted the background
ImageId(img) == img[1][2]
ImageLang(img) == img[1][3]

\* a page holding exactly one full-page image
OnePicture(pg) == Len(pg) = 1 /\ Len(pg[1]) > 0

\* the pages of a document that carry an image
Pictures(pdf) == SelectSeq(pdf, LAMBDA pg : pg # <<>>)

PageIds(pdf) == [k \in 1..Len(Pictures(pdf)) |-> ImageId(Pictures(pdf)[k][1])]

RunEnded == run.pc = "idle" /\ run.exit # "none"

LastLog == IF logs = <<>> THEN <<"none", "none">> ELSE logs[Len(logs)]

\* C1: once cancelGeneration has set the flag during a run, that run never
\* hands a document to pdf.save, whatever it had already produced.
C1_CancelNeverSaves == cancelRequested => saved = <<>>

\* a cancelled run that had captured the page of every record
C1_Witness ==
    /\ RunEnded /\ cancelRequested /\ saved = <<>>
    /\ run.successCount > 0
    /\ run.successCount = Len(run.batchData)

\* C2: the in-flight flag is set exactly while a run is between its start
\* and its exit, and a click on generate during that time changes nothing of
\* the run: flags, log pane, progress, locals, document, canvas, renders.
C2_SingleRun ==
    /\ [](isGenerating <=> run.pc # "idle")
    /\ [][(isGenerating /\ lastOp' \in {"generate", "generateIgnored"})
            => /\ lastOp' = "generateIgnored"
               /\ UNCHANGED <<isGenerating, cancelRequested, logs, progress, run,
                              saved, canvas, calls, nameDrawn, cardDrawn, console>>]_vars

\* a click on generate was ignored while a page was being composed
C2_Witness ==
    /\ lastOp = "generateIgnored" /\ isGenerating
    /\ run.pc = "renderEn" /\ Len(Pictures(run.pdf)) > 0

\* the page order of a document: one image per page (only a document without
\* any image keeps its single empty page), record ids never decrease, an
\* English page starts a new record and a Telugu page directly follows the
\* English page of its record
OrderedPages(pdf) ==
    /\ \A k \in 1..Len(pdf) : OnePicture(pdf[k]) \/ (pdf[k] = <<>> /\ Len(pdf) = 1)
    /\ \A k \in 1..Len(pdf) : pdf[k] # <<>> =>
          LET img == pdf[k][1]
          IN IF ImageLang(img) = "en"
             THEN k > 1 => ImageId(pdf[k - 1][1]) < ImageId(img)
             ELSE /\ k > 1
                  /\ ImageId(pdf[k - 1][1]) = ImageId(img)
                  /\ ImageLang(pdf[k - 1][1]) = "en"

\* C3: at every moment of a run, and in every saved document, the pages are
\* in input record order, and a Telugu page comes directly after the English
\* page of the same record.
C3_PageOrder ==
    /\ OrderedPages(run.pdf)
    /\ \A d \in 1..Len(saved) : OrderedPages(saved[d].pages)

\* English and Telugu page of the first record followed by a page of the second
C3_Witness ==
    /\ Len(run.pdf) = 3
    /\ \A k \in 1..3 : OnePicture(run.pdf[k])
    /\ ImageLang(run.pdf[2][1]) = "te"
    /\ ImageId(run.pdf[3][1]) > ImageId(run.pdf[2][1])

\* a row parseStudent accepts and the loop does not skip as invalid
ValidRow(row) == row.id # 0 /\ Trim(row.name) # <<>>

\* the ids of the rows of a batch whose photo resolves, in input order
Resolvable(batch) ==
    LET rows == SelectSeq(batch, LAMBDA row : row.photo # "missing")
    IN [k \in 1..Len(rows) |-> rows[k].id]

MissingCount(batch) == Len(batch) - Len(Resolvable(batch))

\* the photo fetch of the current record is about to reject
PhotoWillFail == run.pc = "photo" /\ run.student.photo_filename = "missing"

\* C4 (as claimed): a run over N valid records with skipMissing set and
\* generateTelugu clear that ends without having been cancelled ends with
\* successCount = N - k, skipCount = k and, when N - k > 0, one saved document
\* whose pages are the records with a photo, in input order.
C4_CountsAsClaimed ==
    (/\ RunEnded /\ ~cancelRequested
     /\ skipMissing /\ ~generateTelugu
     /\ run.batchData = csvData
     /\ \A k \in 1..Len(csvData) : ValidRow(csvData[k]))
    => LET N == Len(csvData)
           k == MissingCount(csvData)
       IN /\ run.successCount = N - k
          /\ run.skipCount = k
          /\ PageIds(run.pdf) = Resolvable(csvData)
          /\ (N - k > 0) => (Len(saved) = 1 /\ saved[1].pages = run.pdf)

\* C5: a photo fetch that rejects while skipMissing is clear ends the run in
\* the same step as failed: the in-flight flag is cleared, no render is
\* started, the loop index stays at the failing record and nothing is saved.
C5_MissingPhotoIsFatal ==
    [][(PhotoWillFail /\ ~skipMissing /\ run' # run)
         => /\ run'.pc = "idle" /\ run'.exit = "failed"
            /\ run'.i = run.i /\ run'.pdf = run.pdf
            /\ run'.successCount = run.successCount
            /\ ~isGenerating'
            /\ calls' = <<>> /\ canvas' = canvas
            /\ saved' = <<>>]_vars

\* the run failed on the photo of a later record after pages were produced
C5_Witness ==
    /\ RunEnded /\ run.exit = "failed" /\ ~skipMissing
    /\ LastLog = <<"error", "photoNotFound">>
    /\ Len(Pictures(run.pdf)) > 0 /\ saved = <<>>
    /\ run.i >= 1

Occurrences(seq, x) == Cardinality({k \in 1..Len(seq) : seq[k] = x})

\* C6: a photo fetch that rejects while skipMissing is set starts no render
\* and adds no page, appends the id of the record to the skipped list, where
\* it then occurs once, and moves the loop past the record without failing;
\* and a skipped id never owns a page, a render or a generated entry.
C6_MissingPhotoIsSkipped ==
    /\ [][(PhotoWillFail /\ skipMissing /\ run' # run)
            => /\ calls' = <<>> /\ canvas' = canvas
               /\ run'.pdf = run.pdf
               /\ run'.successCount = run.successCount
               /\ run'.skipCount > run.skipCount
               /\ Occurrences(run'.skippedRollNumbers, <<"id", run.student.student_id>>) = 1
               /\ Occurrences(run.skippedRollNumbers, <<"id", run.student.student_id>>) = 0
               /\ run'.i > run.i
               /\ run'.exit # "failed"]_vars
    /\ [](\A s \in 1..Len(run.skippedRollNumbers) :
            LET e == run.skippedRollNumbers[s]
            IN e[1] = "id" =>
                 /\ \A k \in 1..Len(PageIds(run.pdf)) : PageIds(run.pdf)[k] # e[2]
                 /\ \A k \in 1..Len(calls) : calls[k].user.student_id # e[2]
                 /\ \A k \in 1..Len(run.generatedRollNumbers) :
                       run.generatedRollNumbers[k] # e[2])

\* the first record was skipped for its photo and the second one is rendering
C6_Witness ==
    /\ skipMissing /\ generateTelugu
    /\ run.skippedRollNumbers = << <<"id", 1>> >>
    /\ run.pc = "renderEn" /\ run.student.student_id = 2

\* C7 (as claimed): an error raised inside renderCertificate while one
\* record is composed never ends the run as failed.
C7_RenderErrorNeverUnwinds ==
    ~(RunEnded /\ run.exit = "failed" /\ LastLog = <<"error", "renderError">>)

(***************************************************************************)
(* Properties of one composition.                                          *)
(***************************************************************************)
Max(S) == CHOOSE x \in S : \A y \in S : y <= x

\* the invocation has drawn its name block / its card name
NameBlockDone(call) == call.pc \in {"sig", "photo", "qr", "returned"}
CardNameDone(call) == call.pc \in {"qr", "returned"}

NameSizesFitting(t) == { z \in NameSizesTried : nameFits(t, z, em) }
CardSizesFitting(t) == { z \in CardSizesTried : fits(t, z, em) }

\* the stages a completed composition has drawn, in order, when the assets
\* that failed to load are left out
ExpectedStages ==
    StagesBeforeName \o StagesAfterName
      \o (IF sigOK THEN <<"signature">> ELSE <<>>) \o StagesAfterSignature
      \o (IF csvData[1].photo = "ok" THEN <<"photo">> ELSE <<>>) \o StagesAfterPhoto
      \o (IF qrMode = "imgFail" THEN <<>> ELSE <<"qr">>)

FailedAssets ==
    (IF sigOK THEN 0 ELSE 1) + (IF csvData[1].photo = "ok" THEN 0 ELSE 1)
      + (IF qrMode = "imgFail" THEN 1 ELSE 0)

\* C8 (as claimed): when at most one of the signature image, the photo and
\* the code image fails to load, renderCertificate does not fail for it (an
\* invocation that threw is one whose name block threw), and a completed
\* invocation has drawn every stage but the failed element.
C8_AssetFailureNeverThrows ==
    \A k \in 1..Len(calls) :
        FailedAssets <= 1 =>
            /\ calls[k].pc = "threw" => NameBlock(calls[k].user.student_name, em).threw
            /\ calls[k].pc = "returned" =>
                  [j \in 1..Len(canvas) |-> canvas[j][1]] = ExpectedStages

\* C9 (as claimed): a name within the threshold that does not fit at the
\* minimum single-line size is word-wrapped and the composition goes on: the
\* name block (at most 19 characters) and the card (at most 15) both draw
\* the wrapped lines and the invocation does not throw.
C9_OverflowFallsBackToWrap ==
    \A k \in 1..Len(calls) :
        LET call == calls[k]
            nameText == ToUpperCase(call.user.student_name)
            fullname == call.user.student_name
        IN /\ (Len(nameText) <= nameThreshold /\ ~nameFits(nameText, nameMinSize, em))
                => /\ call.pc = "threw" => qrMode = "imgFail" /\ nameDrawn # <<>>
                   /\ NameBlockDone(call) => nameDrawn = NameMultiLine(nameText, em)
           /\ (/\ Len(fullname) <= cardThreshold /\ CardNameDone(call)
               /\ ~fits(fullname, CardSingleSize(fullname, em), em))
                => cardDrawn = CardMultiLine(fullname, em)

\* C10: a name of at most 19 characters that fits the name block at one of
\* the sizes 200, 195, ..., 120 is drawn there as one line at the largest of
\* these sizes that fits, and a name of at most 15 characters that fits the
\* card at one of the sizes 55, 53, ..., 31 is drawn on the card as one line
\* at the largest tried size that fits.
C10_SingleLineAtLargestFit ==
    \A k \in 1..Len(calls) :
        LET call == calls[k]
            nameText == ToUpperCase(call.user.student_name)
            fullname == call.user.student_name
        IN /\ (/\ NameBlockDone(call)
               /\ Len(nameText) <= nameThreshold
               /\ NameSizesFitting(nameText) # {})
                => nameDrawn = <<[text |-> nameText,
                                  size |-> Max(NameSizesFitting(nameText)),
                                  y |-> nameY]>>
           /\ (/\ CardNameDone(call)
               /\ Len(fullname) <= cardThreshold
               /\ \E z \in CardSizesFitting(fullname) : z >= cardMinSize)
                => cardDrawn = <<[text |-> fullname,
                                  size |-> Max(CardSizesFitting(fullname)),
                                  y |-> cardNameY]>>

\* both blocks drew one line after shrinking below their start size
C10_Witness ==
    \E k \in 1..Len(calls) :
        /\ calls[k].pc = "returned"
        /\ Len(nameDrawn) = 1 /\ Len(cardDrawn) = 1
        /\ Len(nameDrawn[1].text) > 0 /\ Len(nameDrawn[1].text) <= nameThreshold
        /\ nameDrawn[1].size < nameStartSize /\ nameDrawn[1].size > nameMinSize
        /\ cardDrawn[1].size < cardStartSize /\ cardDrawn[1].size > cardMinSize

\* the invocation took the multi-line branch of the name block / of the card
NameWrapped(call) ==
    NameBlockDone(call) /\ Len(ToUpperCase(call.user.student_name)) > nameThreshold

CardWrapped(call) ==
    LET fullname == call.user.student_name
    IN /\ CardNameDone(call)
       /\ \/ Len(fullname) > cardThreshold
          \/ ~fits(fullname, CardSingleSize(fullname, em), em)

\* C11 (as claimed): a name of more than 19 characters is drawn in the name
\* block on at least two lines, and a name of more than 15 characters is
\* drawn on the card on at least two lines.
C11_AtLeastTwoLines ==
    \A k \in 1..Len(calls) :
        /\ NameWrapped(calls[k]) => Len(nameDrawn) >= 2
        /\ (CardNameDone(calls[k]) /\ Len(calls[k].user.student_name) > cardThreshold)
              => Len(cardDrawn) >= 2

\* a drawn line made of one word (no space in it)
OneWord(text) == \A j \in 1..Len(text) : text[j] # " "

\* the line fits maxW at the size it is drawn at, or it is one word that does
\* not fit even at the minimum size of a line
LineFitsOrLoneWord(line, maxW, minSize) ==
    \/ Measure(line.text, line.size, em) <= 1000 * maxW
    \/ OneWord(line.text) /\ Measure(line.text, minSize, em) > 1000 * maxW

\* C12: in the multi-line branch of the name block and of the card, every
\* drawn line is at most the maximum width wide at the size it is drawn at,
\* except a line of one word that is too wide even at the minimum line size
\* (80 in the name block, 16 on the card); a line of several words always fits.
C12_WrappedLinesFit ==
    \A k \in 1..Len(calls) :
        /\ NameWrapped(calls[k]) =>
              \A j \in 1..Len(nameDrawn) :
                  LineFitsOrLoneWord(nameDrawn[j], maxNameWidth, nameLineMinSize)
        /\ CardWrapped(calls[k]) =>
              \A j \in 1..Len(cardDrawn) :
                  LineFitsOrLoneWord(cardDrawn[j], maxCardNameWidth, cardLineMinSize)

\* both blocks wrapped into a line of two words and a line of one word that
\* was shrunk below the wrap size
C12_Witness ==
    \E k \in 1..Len(calls) :
        /\ NameWrapped(calls[k]) /\ CardWrapped(calls[k])
        /\ Len(nameDrawn) >= 2 /\ Len(cardDrawn) >= 2
        /\ \E j \in 1..Len(nameDrawn) : ~OneWord(nameDrawn[j].text)
        /\ \E j \in 1..Len(nameDrawn) :
              /\ OneWord(nameDrawn[j].text)
              /\ nameDrawn[j].size < NameMultiLineFontSize(ToUpperCase(calls[k].user.student_name))
        /\ \E j \in 1..Len(cardDrawn) : ~OneWord(cardDrawn[j].text)
        /\ \E j \in 1..Len(cardDrawn) :
              /\ OneWord(cardDrawn[j].text)
              /\ cardDrawn[j].size < CardMultiLineFontSize(calls[k].user.student_name)

(***************************************************************************)
(* Properties of the end of a batch run.                                   *)
(***************************************************************************)
\* C13: a run that ended after the last record of its range, without a cancel
\* request, with at least one page in its document has saved exactly one
\* document, whose pages are the pages of the run, one image each; a
\* document is saved only in the step that ends the run, and the pages of
\* the run do not change once it is saved.
C13_SavesOnceAtEnd ==
    /\ []((RunEnded /\ run.exit = "completed" /\ Len(Pictures(run.pdf)) > 0)
            => /\ Len(saved) = 1
               /\ saved[1].pages = run.pdf
               /\ \A k \in 1..Len(run.pdf) : OnePicture(run.pdf[k]))
    /\ [][(saved' # saved /\ saved' # <<>>)
            => /\ run.pc # "idle" /\ run'.pc = "idle"
               /\ Len(saved') = 1 /\ saved'[1].pages = run'.pdf]_vars
    /\ [][(saved # <<>> /\ saved' = saved) => run'.pdf = run.pdf]_vars

\* a completed run saved a document of the pages of two records
C13_Witness ==
    /\ RunEnded /\ run.exit = "completed" /\ ~cancelRequested
    /\ Len(saved) = 1 /\ Len(saved[1].pages) >= 3
    /\ run.successCount = 2

\* loadCSVData() resolved in the current run
CsvWasLoaded == \E k \in 1..Len(logs) : logs[k] = <<"success", "loaded">>

\* the run ended, without a cancel request, with every record of its range
\* skipped; the empty range is the case of no record at all
EndedWithAllSkipped ==
    /\ RunEnded /\ CsvWasLoaded /\ ~cancelRequested
    /\ run.skipCount = Len(run.batchData)
    /\ Len(Pictures(run.pdf)) = 0

\* C14 (as claimed): a run that produced no page because every record was
\* skipped, or because the record range was empty, ends as completed, not
\* failed, and saves no document.
C14_ZeroPagesCompletes ==
    EndedWithAllSkipped => (run.exit = "completed" /\ saved = <<>>)

\* C14 (amended): a run over a non-empty range in which every record was
\* skipped ends as completed with the "no certificates" message and saves no
\* document; a run over an empty range ends as failed with the "no students"
\* error and saves no document either.
C14_ZeroPagesNoDocument ==
    EndedWithAllSkipped =>
        /\ saved = <<>>
        /\ Len(run.batchData) > 0 =>
              (run.exit = "completed" /\ LastLog = <<"error", "noCertificates">>)
        /\ Len(run.batchData) = 0 =>
              (run.exit = "failed" /\ LastLog = <<"error", "noStudents">>)

\* a run over two records skipped both, one for its data and one for its photo
C14_Witness ==
    /\ EndedWithAllSkipped /\ run.exit = "completed"
    /\ Len(run.batchData) = 2
    /\ \E a, b \in 1..2 : /\ run.skippedRollNumbers[a][1] = "row"
                          /\ run.skippedRollNumbers[b][1] = "id"

(***************************************************************************)
(* Properties of the compositions of a batch run.                          *)
(***************************************************************************)
\* the renderCertificate invocations of the current run for the record id,
\* in order: each is announced in the log pane right before the call
RenderLog(id) ==
    LET es == SelectSeq(logs, LAMBDA e : Len(e) = 3 /\ e[3] = id)
    IN [k \in 1..Len(es) |-> es[k][2]]

\* the number of certificates the current run has started rendering
RenderCount(ls) == Cardinality({k \in 1..Len(ls) : Len(ls[k]) = 3})

\* the languages of the pages of the record id, in page order
PageLangs(pdf, id) ==
    LET ps == SelectSeq(Pictures(pdf), LAMBDA pg : ImageId(pg[1]) = id)
    IN [k \in 1..Len(ps) |-> ImageLang(ps[k][1])]

\* the record id gets a Telugu certificate: checkbox set, Telugu name present
Dual(id) == generateTelugu /\ Trim(csvData[id].telugu) # <<>>

\* the run has left the record id behind
RecordLeft(id) == RunEnded \/ run.student.student_id > id

CancelEntry == <<"warning", "cancelRequested">>

\* the position in the log pane of the first cancel request of the run
FirstCancel ==
    CHOOSE j \in 1..Len(logs) :
        logs[j] = CancelEntry /\ \A h \in 1..(j - 1) : logs[h] # CancelEntry

\* the first cancel request of the run arrived after a certificate started
\* rendering and before its page was captured: the entry before it in the
\* log pane announces that certificate
CancelledMidComposition ==
    /\ cancelRequested
    /\ \E j \in 1..Len(logs) : logs[j] = CancelEntry
    /\ FirstCancel > 1
    /\ Len(logs[FirstCancel - 1]) = 3

\* C16 (as claimed): a cancel request that arrives while a certificate is
\* being composed does not interrupt it: no other composition is started
\* after the request, and the run ends as cancelled, without a saved
\* document, with the page of that composition captured as the last page of
\* its document.
C16_CancelWaitsForComposition ==
    CancelledMidComposition =>
        LET e == logs[FirstCancel - 1]
            lang == IF e[2] = "renderingEn" THEN "en" ELSE "te"
            pics == Pictures(run.pdf)
        IN /\ \A k \in (FirstCancel + 1)..Len(logs) : Len(logs[k]) # 3
           /\ RunEnded =>
                 /\ run.exit = "cancelled" /\ saved = <<>>
                 /\ pics # <<>>
                 /\ ImageId(pics[Len(pics)][1]) = e[3]
                 /\ ImageLang(pics[Len(pics)][1]) = lang

\* C17: when every pending promise and timer eventually settles, a run that
\* was started eventually ends, as completed, cancelled or failed, with the
\* in-flight flag cleared, so that the next click on generate starts a run.
C17_RunReturnsToIdle ==
    isGenerating ~> (/\ ~isGenerating
                     /\ ~GenerateRejected(M)
                     /\ run.pc = "idle"
                     /\ run.exit \in {"completed", "cancelled", "failed"})

\* a run that had captured a page ended on an exception with the flag cleared
C17_Witness ==
    /\ RunEnded /\ run.exit = "failed" /\ ~isGenerating
    /\ LastLog = <<"error", "renderError">>
    /\ Len(Pictures(run.pdf)) > 0

\* C18: during a batch run at most one renderCertificate invocation exists
\* at a time, and when a certificate starts rendering no invocation is
\* pending and the certificate rendered before it in the run is, after that
\* step, the image on the last page of the document.
C18_NoOverlapInBatch ==
    /\ [](Len(calls) <= 1)
    /\ [][(lastOp' = "resume" /\ RenderCount(logs') > RenderCount(logs))
            => /\ calls = <<>>
               /\ RenderCount(logs) > 0 =>
                     LET pics == Pictures(run'.pdf)
                     IN pics # <<>> /\ pics[Len(pics)] = <<canvas>>]_vars

\* the second record is being rendered after both pages of the first
C18_Witness ==
    /\ run.pc = "renderEn" /\ run.student.student_id = 2
    /\ Len(calls) = 1 /\ Suspended(calls[1])
    /\ Len(Pictures(run.pdf)) = 2

\* C19 (as claimed): on the single-certificate page no renderCertificate
\* invocation starts while an earlier one is suspended at an asset load: at
\* most one invocation is suspended at any time.
C19_CanvasOwnedByOne == Len(Unsettled(calls)) <= 1

\* C20 (as claimed): the number of steps of a run is fixed when its range is
\* known, at the number of records, doubled with the Telugu checkbox, every
\* progress event of a record carries it, and for every record the loop has
\* left behind, also one it skipped for its data or its photo, a progress
\* event with a step index, that total and the id of the record was emitted.
C20_ProgressAfterEveryStep ==
    run.batchData # <<>> =>
        LET total == TotalSteps(Len(run.batchData))
        IN /\ run.totalSteps = total
           /\ \A k \in 1..Len(progress) :
                 progress[k][3] # 0 => progress[k][2] = total
           /\ \A j \in 1..run.i :
                 \E k \in 1..Len(progress) :
                     /\ progress[k][1] \in 1..total
                     /\ progress[k][2] = total
                     /\ progress[k][3] = run.batchData[j].id

(***************************************************************************)
(* Partial counts of a run that aborted.                                   *)
(***************************************************************************)
\* the counters the log pane reports: entries written with LogCount
ReportedCounts(tag) ==
    {logs[k][4] : k \in {j \in 1..Len(logs) : Len(logs[j]) = 4 /\ logs[j][2] = tag}}

\* the run ended in the catch block after at least one record was handled
AbortedAfterWork ==
    /\ RunEnded
    /\ run.exit = "failed"
    /\ run.successCount + run.skipCount > 0

\* C21: a run that aborted on a fatal error has reported successCount and
\* skipCount as they stood at the failure, and has saved no document
C21_AbortReportsCounts ==
    (RunEnded /\ run.exit = "failed") =>
        /\ saved = <<>>
        /\ run.successCount \in ReportedCounts("complete")
        /\ run.skipCount \in ReportedCounts("skipped")

\* C21, the half the code keeps: an aborted run saves no document
C21_AbortSavesNothing == (RunEnded /\ run.exit = "failed") => saved = <<>>

(***************************************************************************)
(* Rows without an id or a name.                                           *)
(***************************************************************************)
\* the positions (0-based, as logged) of the invalid rows the loop has passed
InvalidPassed ==
    {j - 1 : j \in {k \in 1..Min(run.i, Len(run.batchData)) :
                        ~ValidRow(run.batchData[k])}}

\* the entries of one kind in the skipped list: "row" for an invalid row,
\* "id" for a record whose photo is missing
SkipsOf(kind) == SelectSeq(run.skippedRollNumbers, LAMBDA e : e[1] = kind)

\* the ids of the rows of the batch that lack a name
NamelessIds ==
    {run.batchData[k].id : k \in {j \in 1..Len(run.batchData) :
                                     Trim(run.batchData[j].name) = <<>>}}

\* an invalid row is passed without a render, a page or a failure
InvalidIsPassedOver ==
    /\ {e[2] : e \in {SkipsOf("row")[k] : k \in 1..Len(SkipsOf("row"))}}
          = InvalidPassed
    /\ Len(SkipsOf("row")) = Cardinality(InvalidPassed)
    /\ \A id \in NamelessIds \cup {0} :
          /\ RenderLog(id) = <<>>
          /\ id \notin {PageIds(run.pdf)[k] : k \in 1..Len(PageIds(run.pdf))}
    /\ (RunEnded /\ run.exit = "failed" /\ run.i < Len(run.batchData)) =>
          ValidRow(run.batchData[run.i + 1])

\* C22 (as claimed): an invalid row is passed over without a render and
\* without a failure, and skipCount counts the missing-photo skips only,
\* the invalid rows being counted apart from them
C22_InvalidCountedApart ==
    /\ InvalidIsPassedOver
    /\ run.skipCount = Len(SkipsOf("id"))

\* C22 (amended): an invalid row is passed over without a render and without
\* a failure, and the one counter skipCount counts invalid rows and
\* missing-photo skips together; only the entries of the skipped list tell
\* the two kinds apart
C22_InvalidSharesSkipCount ==
    /\ InvalidIsPassedOver
    /\ run.skipCount = Len(SkipsOf("row")) + Len(SkipsOf("id"))
    /\ run.skipCount = Len(run.skippedRollNumbers)

\* a run that passed an invalid row and skipped a missing photo, and went on
C22_Witness ==
    /\ RunEnded /\ run.exit = "completed"
    /\ Len(SkipsOf("row")) = 1 /\ Len(SkipsOf("id")) = 1
    /\ run.skipCount = 2

(***************************************************************************)
(* Composing the same job again.                                           *)
(***************************************************************************)
\* the invocation has settled, by returning or by throwing
Settled(call) == call.pc \in {"returned", "threw"}

\* what a settled composition of the record leaves on the canvas: a function
\* of the record, the language and the assets, and of nothing else
FinalCanvas(call) ==
    LET stages == IF NameBlock(call.user.student_name, em).threw
                  THEN StagesBeforeName ELSE ExpectedStages
    IN [j \in 1..Len(stages) |-> <<stages[j], call.user.student_id, call.lang>>]

\* C23: a composition that has settled leaves on the canvas the picture of
\* its own record and language, the same whatever the canvas held when it
\* began; so composing the same job twice in succession leaves the same
\* picture both times
C23_ComposeIsIdempotent ==
    \A k \in 1..Len(calls) :
        Settled(calls[k]) =>
            /\ canvas = FinalCanvas(calls[k])
            /\ nameDrawn = NameBlock(calls[k].user.student_name, em).lines
            /\ calls[k].pc = "returned" =>
                  cardDrawn = CardName(calls[k].user.student_name, em)

\* the same job has been composed on a canvas that held its own picture
C23_Witness ==
    \E k \in 1..Len(calls) :
        /\ calls[k].pc = "returned"
        /\ calls[k].before = <<calls[k].user.student_id, calls[k].lang>>
        /\ canvas = FinalCanvas(calls[k])

(***************************************************************************)
(* The cancel flag.                                                        *)
(***************************************************************************)
\* one step of the program seen from the cancel flag
CancelFlagStep ==
    /\ (~cancelRequested /\ cancelRequested') => (lastOp' = "cancel" /\ isGenerating)
    /\ (lastOp' \in {"cancel", "cancelIgnored"} /\ ~isGenerating) =>
          cancelRequested' = cancelRequested
    /\ lastOp' = "generate" => (~cancelRequested' /\ isGenerating')
    /\ (cancelRequested /\ ~cancelRequested') => lastOp' = "generate"

\* C24: only cancelGeneration sets the cancel flag, and only while a run is
\* in flight; invoked while idle it leaves the flag as it is; and a run that
\* starts clears the flag, which nothing else does
C24_CancelFlagDiscipline == [][CancelFlagStep]_vars

\* cancelGeneration was invoked after a cancelled run had ended: the flag of
\* that run is still set and stays so
C24_Witness ==
    /\ lastOp = "cancelIgnored"
    /\ ~isGenerating
    /\ cancelRequested
    /\ RunEnded /\ run.exit = "cancelled"

(***************************************************************************)
(* The wrap size of the multi-line path.                                   *)
(***************************************************************************)
\* the drawn lines are the greedy wrap of the text at the size tier, and
\* every line is drawn at tier, or below it when it does not fit at tier
DrawnAtTier(drawn, t, tier, maxW) ==
    /\ [j \in 1..Len(drawn) |-> drawn[j].text] = GreedyWrap(t, tier, maxW, em)
    /\ \A j \in 1..Len(drawn) :
          /\ drawn[j].size <= tier
          /\ Measure(drawn[j].text, tier, em) <= 1000 * maxW => drawn[j].size = tier

\* C25: in the multi-line path the wrap size follows from the length of the
\* name alone (in the name block, of the upper-cased name it draws): more
\* than 25 characters give 120 in the name block and 26 on the card, every
\* other wrapped name gets 150 and 30
C25_WrapTierByLength ==
    \A k \in 1..Len(calls) :
        LET fullname == calls[k].user.student_name
            nameText == ToUpperCase(fullname)
        IN /\ NameWrapped(calls[k]) =>
                 DrawnAtTier(nameDrawn, nameText,
                             IF Len(nameText) > 25 THEN 120 ELSE 150, maxNameWidth)
           /\ CardWrapped(calls[k]) =>
                 DrawnAtTier(cardDrawn, fullname,
                             IF Len(fullname) > 25 THEN 26 ELSE 30, maxCardNameWidth)

\* a name of more than 25 characters wrapped at the reduced tier in both places
C25_Witness ==
    \E k \in 1..Len(calls) :
        /\ calls[k].pc = "returned"
        /\ Len(calls[k].user.student_name) > 25
        /\ Len(nameDrawn) >= 2 /\ nameDrawn[1].size = 120
        /\ Len(cardDrawn) >= 2 /\ cardDrawn[1].size = 26

(***************************************************************************)
(* Progress of the greedy wrap.                                            *)
(***************************************************************************)
\* the words of a text as a reader counts them: the non-empty pieces between
\* its spaces
WordsIn(t) == SelectSeq(SplitSpace(t), LAMBDA w : w # <<>>)

\* the drawn lines each hold a word, and there are at most as many lines as
\* the text has words
LinesHoldWords(drawn, t) ==
    /\ \A j \in 1..Len(drawn) : WordsIn(drawn[j].text) # <<>>
    /\ Len(drawn) <= Len(WordsIn(t))

\* the drawn lines each hold a piece of text.split(' '), and there are at
\* most as many lines as pieces; a piece is empty where a space is doubled
LinesHoldPieces(drawn, t) ==
    /\ \A j \in 1..Len(drawn) : Len(SplitSpace(drawn[j].text)) >= 1
    /\ Len(drawn) <= Len(SplitSpace(t))
    /\ JoinSpace([j \in 1..Len(drawn) |-> drawn[j].text]) = t

\* a name as parseStudent hands it on: trimmed and not empty
AsParsed(t) == t # <<>> /\ t = Trim(t)

\* C26: the wrap loop ends for every name (the name block and the card name
\* are drawn), every line it produces contains at least one word, and it
\* produces at most as many lines as the name has words; stated for the
\* names without leading or trailing spaces
C26_WrapMakesProgress ==
    \A k \in 1..Len(calls) :
        AsParsed(calls[k].user.student_name) =>
            /\ NameWrapped(calls[k]) =>
                  LinesHoldWords(nameDrawn, ToUpperCase(calls[k].user.student_name))
            /\ CardWrapped(calls[k]) =>
                  LinesHoldWords(cardDrawn, calls[k].user.student_name)

\* C26, what the code keeps: the loop ends, and the lines are the pieces of
\* text.split(' ') in order, at least one piece to a line
C26_WrapPlacesEveryPiece ==
    \A k \in 1..Len(calls) :
        /\ NameWrapped(calls[k]) =>
              LinesHoldPieces(nameDrawn, ToUpperCase(calls[k].user.student_name))
        /\ CardWrapped(calls[k]) =>
              LinesHoldPieces(cardDrawn, calls[k].user.student_name)

\* two overlong words with a doubled space between them: the card draws an
\* empty line between the two
C26_EmptyLineDrawn ==
    \E k \in 1..Len(calls) :
        /\ calls[k].pc = "returned"
        /\ AsParsed(calls[k].user.student_name)
        /\ Len(cardDrawn) = 3
        /\ cardDrawn[2].text = <<>>

(***************************************************************************)
(* Where the greedy wrap breaks.                                           *)
(***************************************************************************)
\* every line but the last could not take the first word of the next line:
\* the two joined by a space are wider than maxW at the wrap size
BreaksOnlyOnOverflow(drawn, tier, maxW) ==
    \A j \in 1..(Len(drawn) - 1) :
        Measure(drawn[j].text \o <<" ">> \o Head(SplitSpace(drawn[j + 1].text)),
                tier, em) > 1000 * maxW

\* C27: in a wrapped name block and a wrapped card name, each line followed
\* by a space and the first word of the next line is wider than the maximum
\* width at the wrap size, so no word went to a new line while it still
\* fitted on the current one
C27_BreaksOnlyOnOverflow ==
    \A k \in 1..Len(calls) :
        LET fullname == calls[k].user.student_name
            nameText == ToUpperCase(fullname)
        IN /\ NameWrapped(calls[k]) =>
                 BreaksOnlyOnOverflow(nameDrawn, NameMultiLineFontSize(nameText),
                                      maxNameWidth)
           /\ CardWrapped(calls[k]) =>
                 BreaksOnlyOnOverflow(cardDrawn, CardMultiLineFontSize(fullname),
                                      maxCardNameWidth)

\* a name of three words wrapped on two lines in the name block: two words
\* share a line and the third did not fit beside them
C27_Witness ==
    \E k \in 1..Len(calls) :
        /\ NameWrapped(calls[k])
        /\ Len(WordsIn(calls[k].user.student_name)) = 3
        /\ Len(nameDrawn) = 2
        /\ Len(WordsIn(nameDrawn[1].text)) = 2

(***************************************************************************)
(* The floors of the shrink loops.                                         *)
(***************************************************************************)
\* every drawn line has a size from floor to start
SizesWithin(drawn, floor, start) ==
    \A j \in 1..Len(drawn) : drawn[j].size >= floor /\ drawn[j].size <= start

\* C28 (as claimed): the size a shrink loop resolves is never below its
\* floor and never above its start size: 120 to 200 for a one-line name
\* block, 80 to the wrap size for a wrapped name-block line, 30 to 55 for a
\* one-line card name, 16 to the wrap size for a wrapped card line
C28_SizesStayAboveFloor ==
    \A k \in 1..Len(calls) :
        LET fullname == calls[k].user.student_name
            nameText == ToUpperCase(fullname)
        IN /\ (NameBlockDone(calls[k]) /\ ~NameWrapped(calls[k])) =>
                 SizesWithin(nameDrawn, 120, 200)
           /\ NameWrapped(calls[k]) =>
                 SizesWithin(nameDrawn, 80, NameMultiLineFontSize(nameText))
           /\ (CardNameDone(calls[k]) /\ ~CardWrapped(calls[k])) =>
                 SizesWithin(cardDrawn, 30, 55)
           /\ CardWrapped(calls[k]) =>
                 SizesWithin(cardDrawn, 16, CardMultiLineFontSize(fullname))

\* C28, what the code keeps: the same with 29 as the floor of the one-line
\* card name, the size the loop 55, 53, ..., 31, 29 ends at
C28_SizesStayAboveLoopEnd ==
    \A k \in 1..Len(calls) :
        LET fullname == calls[k].user.student_name
            nameText == ToUpperCase(fullname)
        IN /\ (NameBlockDone(calls[k]) /\ ~NameWrapped(calls[k])) =>
                 SizesWithin(nameDrawn, 120, 200)
           /\ NameWrapped(calls[k]) =>
                 SizesWithin(nameDrawn, 80, NameMultiLineFontSize(nameText))
           /\ (CardNameDone(calls[k]) /\ ~CardWrapped(calls[k])) =>
                 SizesWithin(cardDrawn, 29, 55)
           /\ CardWrapped(calls[k]) =>
                 SizesWithin(cardDrawn, 16, CardMultiLineFontSize(fullname))

\* a card name drawn on one line at 29
C28_CardDrawnBelowFloor ==
    \E k \in 1..Len(calls) :
        /\ calls[k].pc = "returned"
        /\ Len(cardDrawn) = 1
        /\ cardDrawn[1].size = 29

(***************************************************************************)
(* The size of each wrapped line.                                          *)
(***************************************************************************)
\* the sizes the shrink of one line visits, from the wrap size to the floor
LineSizes(tier, floor, step) ==
    {tier - step * i : i \in 0..((tier - floor) \div step)}

\* the size of a line from its own text and the wrap size: the largest
\* visited size at which the text fits, the floor when it fits at none
ResolvedAlone(t, tier, floor, step, maxW) ==
    LET fitting == {z \in LineSizes(tier, floor, step) :
                       Measure(t, z, em) <= 1000 * maxW}
    IN IF fitting # {} THEN Max(fitting) ELSE floor

\* C29: in a wrapped name block and a wrapped card name every line is drawn
\* at the size that its own text and the wrap size give, whatever the other
\* lines of the name are; a line that fits at the wrap size keeps it
C29_LinesShrinkAlone ==
    \A k \in 1..Len(calls) :
        LET fullname == calls[k].user.student_name
            nameText == ToUpperCase(fullname)
        IN /\ NameWrapped(calls[k]) =>
                 \A j \in 1..Len(nameDrawn) :
                     nameDrawn[j].size =
                         ResolvedAlone(nameDrawn[j].text,
                                       NameMultiLineFontSize(nameText), 80, 5,
                                       maxNameWidth)
           /\ CardWrapped(calls[k]) =>
                 \A j \in 1..Len(cardDrawn) :
                     cardDrawn[j].size =
                         ResolvedAlone(cardDrawn[j].text,
                                       CardMultiLineFontSize(fullname), 16, 2,
                                       maxCardNameWidth)

\* a wrapped name block with one line at the wrap size and another line
\* that had to shrink
C29_Witness ==
    \E k \in 1..Len(calls) :
        /\ NameWrapped(calls[k])
        /\ \E i, j \in 1..Len(nameDrawn) :
              /\ nameDrawn[i].size =
                    NameMultiLineFontSize(ToUpperCase(calls[k].user.student_name))
              /\ nameDrawn[j].size < nameDrawn[i].size

(***************************************************************************)
(* The order of the drawing stages.                                        *)
(***************************************************************************)
\* the stages in the order of the claim: background and frame, identifier,
\* title block, name block, body, footer (date, signature, signer), card
\* with photo, card name and code
StageOrder ==
    <<"background", "frame", "id", "title", "name", "body",
      "date", "signature", "signer",
      "card", "photoSlot", "photo", "cardName", "qrSlot", "qr">>

Rank(stage) == CHOOSE r \in 1..Len(StageOrder) : StageOrder[r] = stage

\* the stage drawn last
LastStage == canvas[Len(canvas)][1]

\* C30: what one composition has drawn is in the fixed order of the stages,
\* each stage drawn once and none before an earlier one; and at each
\* suspension every stage that precedes the load has been drawn and none
\* that follows it: up to the date at the signature load, up to the photo
\* slot at the photo load, up to the code square at the code image load
C30_StagesInFixedOrder ==
    /\ \A i, j \in 1..Len(canvas) :
          i < j => /\ Rank(canvas[i][1]) < Rank(canvas[j][1])
                   /\ canvas[i][2] = canvas[j][2]
                   /\ canvas[i][3] = canvas[j][3]
    /\ \A k \in 1..Len(calls) :
          /\ calls[k].pc = "sig" => LastStage = "date"
          /\ calls[k].pc = "photo" => LastStage = "photoSlot"
          /\ calls[k].pc = "qr" => LastStage = "qrSlot"
          /\ calls[k].pc = "returned" => LastStage \in {"qrSlot", "qr"}

\* a composition that drew all fifteen stages over its three suspensions
C30_Witness ==
    \E k \in 1..Len(calls) :
        /\ calls[k].pc = "returned"
        /\ Len(canvas) = Len(StageOrder)
        /\ qrMode = "img"

(***************************************************************************)
(* The wrap keeps the text.                                                *)
(***************************************************************************)
\* the pieces of all lines, line after line
RECURSIVE PiecesOf(_)
PiecesOf(texts) ==
    IF texts = <<>> THEN <<>>
    ELSE SplitSpace(Head(texts)) \o PiecesOf(Tail(texts))

\* the drawn lines joined by single spaces are the text, and their words
\* are the words of the text in the same order
LinesSpell(drawn, t) ==
    LET texts == [j \in 1..Len(drawn) |-> drawn[j].text]
    IN /\ JoinSpace(texts) = t
       /\ PiecesOf(texts) = SplitSpace(t)

\* C31: the lines of a wrapped name block, joined in order by single
\* spaces, are exactly the text that was wrapped (the upper-cased name), and
\* the lines of a wrapped card name are exactly the name; no word is
\* dropped, duplicated, split or reordered
C31_WrapPreservesText ==
    \A k \in 1..Len(calls) :
        /\ NameWrapped(calls[k]) =>
              LinesSpell(nameDrawn, ToUpperCase(calls[k].user.student_name))
        /\ CardWrapped(calls[k]) =>
              LinesSpell(cardDrawn, calls[k].user.student_name)

\* a name of three words drawn on three lines on the card and on at least
\* two in the name block
C31_Witness ==
    \E k \in 1..Len(calls) :
        /\ calls[k].pc = "returned"
        /\ Len(WordsIn(calls[k].user.student_name)) = 3
        /\ Len(cardDrawn) = 3
        /\ Len(nameDrawn) >= 2

(***************************************************************************)
(* The step counter of a run.                                              *)
(***************************************************************************)
\* the run went through its whole range and was neither cancelled nor failed
ReachedEndOfRange ==
    /\ RunEnded /\ run.exit = "completed"
    /\ run.batchData # <<>>
    /\ run.i = Len(run.batchData)

\* C32: currentStep never exceeds totalSteps, and a run that reached the end
\* of its range without cancellation or failure ends with currentStep equal
\* to totalSteps
C32_StepsReachTotal ==
    /\ run.currentStep <= run.totalSteps
    /\ ReachedEndOfRange => run.currentStep = run.totalSteps

\* C32, what the code keeps: currentStep never exceeds totalSteps, and at
\* the end of the range it falls short of it by one step for every invalid
\* row of a two-language run
C32_StepsShortByInvalidRows ==
    /\ run.currentStep <= run.totalSteps
    /\ ReachedEndOfRange =>
          run.totalSteps - run.currentStep =
              IF generateTelugu THEN Len(SkipsOf("row")) ELSE 0

\* a two-language run over an invalid row and a valid record ended one step
\* short of totalSteps
C32_EndedShort ==
    /\ ReachedEndOfRange
    /\ generateTelugu
    /\ run.successCount = 1
    /\ run.currentStep = run.totalSteps - 1

(***************************************************************************)
(* The bookkeeping of a run that went through its range.                   *)
(***************************************************************************)
\* the English pages of a document
PrimaryPages(pdf) ==
    SelectSeq(Pictures(pdf), LAMBDA pg : ImageLang(pg[1]) = "en")

\* C33: a run that reached the end of its range without cancellation or
\* failure has counted every record once: successCount + skipCount is the
\* number of records, each list has one entry for each record it counts, no
\* generated id is in the skipped list, and the document holds successCount
\* English pages, those of the generated ids in order
C33_EveryRecordAccounted ==
    ReachedEndOfRange =>
        /\ run.successCount + run.skipCount = Len(run.batchData)
        /\ Len(run.generatedRollNumbers) = run.successCount
        /\ Len(run.skippedRollNumbers) = run.skipCount
        /\ \A g \in 1..Len(run.generatedRollNumbers) :
              \A h \in 1..Len(run.skippedRollNumbers) :
                  run.skippedRollNumbers[h] # <<"id", run.generatedRollNumbers[g]>>
        /\ Len(PrimaryPages(run.pdf)) = run.successCount
        /\ [j \in 1..Len(PrimaryPages(run.pdf)) |->
               ImageId(PrimaryPages(run.pdf)[j][1])] = run.generatedRollNumbers

\* a two-language run over a record that is generated and one whose photo is
\* missing
C33_Witness ==
    /\ ReachedEndOfRange
    /\ generateTelugu
    /\ run.successCount = 1 /\ run.skipCount = 1
    /\ Len(SkipsOf("id")) = 1
    /\ Len(Pictures(run.pdf)) = 2

(***************************************************************************)
(* The wrapped card name and the code square.                              *)
(***************************************************************************)
\* the lines are drawn top to bottom one line height apart
EvenlySpaced(drawn, lineHeight) ==
    \A j \in 1..(Len(drawn) - 1) : drawn[j + 1].y = drawn[j].y + lineHeight

\* C34: the last line of a wrapped card name is drawn at or above the limit
\* of 170 pixels above the bottom of the card, however many lines there
\* are; the lines keep their spacing, and the group starts at cardNameY
\* unless that would take the last line past the limit, in which case the
\* last line is drawn on the limit
C34_CardNameAboveCode ==
    \A k \in 1..Len(calls) :
        CardWrapped(calls[k]) =>
            LET n == Len(cardDrawn)
                lineHeight == IF Len(calls[k].user.student_name) > 25 THEN 32 ELSE 36
                limit == cardY + cardH - 170
            IN /\ n >= 1
               /\ cardDrawn[n].y <= limit
               /\ EvenlySpaced(cardDrawn, lineHeight)
               /\ IF cardNameY + (n - 1) * lineHeight > limit
                  THEN cardDrawn[n].y = limit
                  ELSE cardDrawn[1].y = cardNameY

\* a card name of three lines that was shifted up to end on the limit
C34_Witness ==
    \E k \in 1..Len(calls) :
        /\ calls[k].pc = "returned"
        /\ Len(cardDrawn) = 3
        /\ cardDrawn[1].y < cardNameY
        /\ cardDrawn[3].y = cardY + cardH - 170

(***************************************************************************)
(* The download of the single-certificate page.                            *)
(***************************************************************************)
\* the download handler has just exported the canvas
Exported == lastOp = "download" /\ page.currentUser # 0

\* the file of that download: its language suffix and its image
ExportedFile == [suffix |-> LangSuffix(page.currentLang), image |-> canvas]

\* the image is one complete composition of the user in the language
CompleteIn(image, id, lang) ==
    image = [j \in 1..Len(ExpectedStages) |-> <<ExpectedStages[j], id, lang>>]

\* C35 (as claimed): whenever the download handler exports the canvas, the
\* image is one complete composition of the logged-in user in the language
\* that the suffix of the file name indicates
C35_DownloadIsComplete ==
    Exported =>
        CompleteIn(ExportedFile.image, csvData[page.currentUser].id,
                   IF ExportedFile.suffix = "" THEN "en" ELSE "te")

\* a download while a render is suspended: the file is named for Telugu and
\* holds the part of the picture drawn before the signature load
C35_PartialExport ==
    /\ Exported
    /\ ExportedFile.suffix = "_TE"
    /\ Len(calls) = 1 /\ calls[1].pc = "sig"
    /\ Len(ExportedFile.image) < Len(ExpectedStages)

(***************************************************************************)
(* Who the single-certificate page renders for.                            *)
(***************************************************************************)
\* the step is a click on generate or on the language toggle
RenderClicked == lastOp' \in {"generateClick", "langToggle"}

\* one step of the page seen from the user and the photo
PageSessionStep ==
    /\ RenderClicked =>
          IF PageReady(M)
          THEN /\ calls' # <<>>
               /\ LET call == calls'[Len(calls')]
                  IN /\ call.user = RowUser(csvData[page.currentUser])
                     /\ call.photo = page.uploadedPhotoBase64
                     /\ call.photo # "none"
          ELSE UNCHANGED <<canvas, calls, nameDrawn, cardDrawn, console, page>>
    /\ Len(Unsettled(calls')) > Len(Unsettled(calls)) => (RenderClicked /\ PageReady(M))
    /\ (canvas' # canvas /\ RenderClicked) => PageReady(M)
    /\ lastOp' = "logout" =>
          page'.currentUser = 0 /\ page'.uploadedPhotoBase64 = "none"
    /\ (page.currentUser = 0 /\ page'.currentUser # 0) => lastOp' = "login"
    /\ (page.uploadedPhotoBase64 = "none" /\ page'.uploadedPhotoBase64 # "none") =>
          lastOp' = "crop"

\* C36: on the single-certificate page renderCertificate is invoked only by
\* a click that finds a logged-in user and a cropped photo, and with these
\* two; logout clears both; a click on generate or on the toggle without
\* them changes nothing; and only a successful login sets the user again
\* and only a crop the photo
C36_RendersOnlyForSession == [][PageSessionStep]_vars

\* a click on generate after a logout that followed a render: nothing
\* happened
C36_Witness ==
    /\ lastOp = "generateClick"
    /\ page.currentUser = 0 /\ page.uploadedPhotoBase64 = "none"
    /\ canvas # <<>>
    /\ calls = <<>>

====
